---- MODULE Spec2Model ----
(***************************************************************************)
(* A model of sos/plugins/__init__.py: the Plugin collection engine.       *)
(*                                                                         *)
(* Python strings (paths, commands, file names) are sequences of           *)
(* one-character strings, so that prefix, suffix and substring tests and   *)
(* concatenation are computed as the code computes them.                   *)
(***************************************************************************)
EXTENDS Integers, Sequences, FiniteSets, TLC

VARIABLES
    commons,            \* self.commons: sysroot and the command line options
    fs,                 \* the host file system: path -> lstat/stat data
    predicate,          \* Plugin.predicate
    cmd_predicate,      \* Plugin.cmd_predicate
    forbidden_paths,    \* Plugin.forbidden_paths
    copy_paths,         \* Plugin.copy_paths
    copy_strings,       \* Plugin.copy_strings
    collect_cmds,       \* Plugin.collect_cmds
    copied_files,       \* Plugin.copied_files
    executed_commands,  \* Plugin.executed_commands
    timeout_hit,        \* Plugin._timeout_hit
    archive,            \* the archive: destination path -> entry
    dispatched,         \* the commands handed to sos_get_command_output, in order
    pc,                 \* where the plugin's thread is
    frame,              \* the locals of the running call
    last_call,          \* the API call that ran last, with its arguments
    ret                 \* what that call returned

vars == <<commons, fs, predicate, cmd_predicate, forbidden_paths, copy_paths,
          copy_strings, collect_cmds, copied_files, executed_commands, timeout_hit,
          archive, dispatched, pc, frame, last_call, ret>>

\* The host and the options: nothing the plugin does changes them.
host == <<commons, fs>>

preds == <<predicate, cmd_predicate>>

ledgers == <<copied_files, executed_commands>>

\* ------------------------------------------------------------------ bounds

\* How many regular files the log directory holds.
MaxLogFiles == 3
\* How many setup calls one run makes.
MaxSetupCalls == 2
\* How many commands a run has collected when substitution starts.
MaxCmds == 2
\* How many pieces (markers, line breaks) all collected outputs hold together.
MaxPieces == 2

\* ----------------------------------------------------------------- strings

Min(a, b) == IF a < b THEN a ELSE b

StartsWith(s, p) == Len(p) <= Len(s) /\ SubSeq(s, 1, Len(p)) = p

EndsWith(s, p) == Len(p) <= Len(s) /\ SubSeq(s, Len(s) - Len(p) + 1, Len(s)) = p

\* Python's `p in s` for strings.
Contains(s, p) == \E i \in 0..(Len(s) - Len(p)) : SubSeq(s, i + 1, i + Len(p)) = p

Drop(s, n) == SubSeq(s, n + 1, Len(s))

RECURSIVE LStrip(_, _)
LStrip(s, ch) == IF s # <<>> /\ Head(s) = ch THEN LStrip(Tail(s), ch) ELSE s

RECURSIVE Replace(_, _, _)
Replace(s, from, to) ==
    IF s = <<>> THEN <<>>
    ELSE <<(IF Head(s) = from THEN to ELSE Head(s))>> \o Replace(Tail(s), from, to)

RECURSIVE Count(_, _)
Count(s, ch) ==
    IF s = <<>> THEN 0 ELSE (IF Head(s) = ch THEN 1 ELSE 0) + Count(Tail(s), ch)

\* The index of the last `ch` of s, 0 when there is none.
LastIndexOf(s, ch) ==
    LET hits == {i \in 1..Len(s) : s[i] = ch}
    IN IF hits = {} THEN 0 ELSE CHOOSE i \in hits : \A j \in hits : j <= i

\* os.path.dirname
Dirname(path) ==
    LET i == LastIndexOf(path, "/")
        head == SubSeq(path, 1, i)
    IN IF head = <<>> \/ Count(head, "/") = Len(head) THEN head
       ELSE SubSeq(path, 1, i - 1)

\* os.path.join(a, b)
PathJoin(a, b) ==
    IF StartsWith(b, <<"/">>) THEN b
    ELSE IF a = <<>> \/ EndsWith(a, <<"/">>) THEN a \o b
    ELSE a \o <<"/">> \o b

MB == 1024 * 1024

\* Python's None where a number is expected.
None == 0 - 1

\* ------------------------------------------------------------- file system

LogNames == <<"a", "b", "c", "d", "e", "f">>

LogDir == <<"/", "v">>

\* Every third log file is a compressed one.
LogFile(i) ==
    LogDir \o <<"/", LogNames[i]>> \o (IF i % 3 = 0 THEN <<".", "g", "z">> ELSE <<>>)

LogFiles == {LogFile(i) : i \in 1..MaxLogFiles}

Root == <<"/">>

AltRoot == <<"/", "s">>

\* Plugin.use_sysroot
use_sysroot == commons.sysroot # Root

\* Plugin.join_sysroot
join_sysroot(path) ==
    PathJoin(commons.sysroot, IF Head(path) = "/" THEN Tail(path) ELSE path)

\* Plugin.strip_sysroot
strip_sysroot(path) ==
    IF ~use_sysroot THEN path
    ELSE IF StartsWith(path, commons.sysroot) THEN Drop(path, Len(commons.sysroot))
    ELSE path

\* A path of the host as the plugin, working under its sysroot, sees it.
HostPath(logical) == IF commons.sysroot = Root THEN logical ELSE commons.sysroot \o logical

Exists(path) == path \in DOMAIN fs

\* os.stat(path)[ST_SIZE] of add_copy_spec: the size, 0 where stat fails.
StatSize(path) == IF fs[path].statok THEN fs[path].size ELSE 0

\* getmtime of add_copy_spec: 0 where the path cannot be examined.
getmtime(path) == IF fs[path].statok THEN fs[path].mtime ELSE 0

\* _file_is_compressed
file_is_compressed(path) ==
    \/ EndsWith(path, <<".", "g", "z">>)
    \/ EndsWith(path, <<".", "x", "z">>)
    \/ EndsWith(path, <<".", "b", "z">>)
    \/ EndsWith(path, <<".", "b", "z", "2">>)

\* _path_in_path_list
path_in_path_list(path, path_list) == \E p \in path_list : Contains(path, p)

\* Plugin._is_forbidden_path
is_forbidden_path(path) ==
    path_in_path_list(IF use_sysroot THEN join_sysroot(path) ELSE path, forbidden_paths)

\* glob.glob as _expand_copy_spec uses it: a literal path, or a pattern ending in
\* one '*' that stands for the rest of a file name.
expand_copy_spec(copyspec) ==
    IF copyspec # <<>> /\ copyspec[Len(copyspec)] = "*"
    THEN LET prefix == SubSeq(copyspec, 1, Len(copyspec) - 1)
         IN {p \in DOMAIN fs :
                /\ StartsWith(p, prefix)
                /\ Len(p) > Len(prefix)
                /\ Count(Drop(p, Len(prefix)), "/") = 0
                /\ p[Len(prefix) + 1] # "."}
    ELSE {p \in DOMAIN fs : p = copyspec}

\* The orders files.sort(key=getmtime, reverse=True) can leave the list in: the
\* sort is stable and glob's own order is arbitrary, so files of one mtime come in
\* any order.
SortedNewestFirst(files) ==
    LET n == Cardinality(files)
    IN {q \in [1..n -> files] :
            /\ \A i, j \in 1..n : i # j => q[i] # q[j]
            /\ \A i, j \in 1..n : i < j => getmtime(q[i]) >= getmtime(q[j])}

\* -------------------------------------------------------------- predicates

NoPred == [isset |-> FALSE, dry_run |-> FALSE, kmods |-> {}, services |-> {}]

\* SoSPredicate.__init__
SoSPredicate(dry_run, kmods, services) ==
    [isset |-> TRUE, dry_run |-> (dry_run \/ commons.dry_run),
     kmods |-> kmods, services |-> services]

\* SoSPredicate.__nonzero__
nonzero(pred) ==
    LET pvalue == \/ \E k \in pred.kmods : k \in commons.loaded_kmods
                  \/ \E s \in pred.services : s \in commons.running_services
    IN IF pred.kmods = {} /\ pred.services = {} /\ ~pred.dry_run THEN TRUE
       ELSE pvalue /\ ~pred.dry_run

\* A get_predicate that prefers the command predicate for every kind of call.
GetPredicateCmdFirst(cmd, pred) ==
    IF pred.isset THEN pred
    ELSE IF cmd_predicate.isset THEN cmd_predicate
    ELSE predicate

\* Plugin.get_predicate
get_predicate(cmd, pred) ==
    IF pred.isset THEN pred
    ELSE IF cmd /\ cmd_predicate.isset THEN cmd_predicate
    ELSE predicate

\* bool(pred): Python 2 asks __nonzero__; Python 3 asks __bool__, which the class
\* does not define, and takes the object for true.
truth(pred) == IF commons.py3 THEN TRUE ELSE nonzero(pred)

\* Plugin.test_predicate
test_predicate(cmd, pred) ==
    LET p == get_predicate(cmd, pred) IN IF p.isset THEN truth(p) ELSE FALSE

\* ----------------------------------------------------------------- archive

PluginName == <<"p">>

StringsDir == <<"sos_strings">>

NoPath == <<>>

\* One archive entry: kind is file, string, binary, link or node.
Entry(kind, src, target, nbytes, text) ==
    [kind |-> kind, src |-> src, target |-> target, nbytes |-> nbytes, text |-> text]

\* archive.add_*: the entry at dst is written (anew or over the old one).
Put(arch, dst, entry) == (dst :> entry) @@ arch

\* utilities.tail(filename, number_of_bytes): the last number_of_bytes bytes of the
\* file, all of it when it is shorter.
tail(path, number_of_bytes) ==
    [src |-> path, nbytes |-> Min(StatSize(path), number_of_bytes), text |-> <<>>]

\* os.path.relpath('/', d) for a normalised absolute directory d.
RECURSIVE UpDirs(_)
UpDirs(n) == IF n = 0 THEN <<>> ELSE IF n = 1 THEN <<".", ".">>
             ELSE <<".", ".", "/">> \o UpDirs(n - 1)

RelPathToRoot(dir) == IF dir = Root THEN <<".">> ELSE UpDirs(Count(dir, "/"))

\* The name add_copy_spec gives the string that holds the tail of a file.
TailedName(path) ==
    Replace(LStrip(path, "/"), "/", ".") \o <<".", "t", "a", "i", "l", "e", "d">>

\* Where _collect_strings writes the string named file_name.
StringDest(file_name) == StringsDir \o <<"/">> \o PluginName \o <<"/">> \o file_name

\* ------------------------------------------------------------ setup calls

\* Plugin.add_forbidden_path: the paths glob finds for `forbidden` are appended
\* (the list is only ever searched, so its order and repeats are left out).
add_forbidden_path(forbidden) ==
    LET forbid == IF use_sysroot THEN join_sysroot(forbidden) ELSE forbidden
    IN /\ forbidden_paths' = forbidden_paths \cup expand_copy_spec(forbid)
       /\ last_call' = [op |-> "add_forbidden_path", n |-> last_call.n + 1,
                        args |-> [forbidden |-> forbidden]]
       /\ ret' = None
       /\ UNCHANGED <<host, preds, copy_paths, copy_strings, collect_cmds, ledgers,
                      timeout_hit, archive, dispatched, pc, frame>>

\* Plugin.add_string_as_file, as a function of the queue: the string is queued
\* when the predicate allows it.
add_string_as_file(strings, content, filename, pred) ==
    IF ~test_predicate(FALSE, pred) THEN strings
    ELSE Append(strings, [content |-> content, filename |-> filename])

\* The byte limit add_copy_spec works with: 0 stands for "no limit" (None or 0).
EffectiveLimit(sizelimit) ==
    LET s1 == IF sizelimit = None THEN commons.log_size ELSE sizelimit
        s2 == IF commons.all_logs THEN None ELSE s1
    IN IF s2 = None \/ s2 = 0 THEN 0 ELSE s2 * MB

ScanStart == [current_size |-> 0, limit_reached |-> FALSE, file |-> NoPath, added |-> {}]

\* ScanFiles with the budget test off by one: a file that fills the budget exactly
\* is taken for an overflow.
RECURSIVE ScanFilesOffByOne(_, _, _, _)
ScanFilesOffByOne(files, i, limit, st) ==
    IF i > Len(files) THEN st
    ELSE LET f == files[i]
             size == st.current_size + StatSize(f)
         IN IF is_forbidden_path(f)
            THEN ScanFilesOffByOne(files, i + 1, limit, [st EXCEPT !.file = f])
            ELSE IF limit # 0 /\ size >= limit
            THEN [st EXCEPT !.current_size = size, !.limit_reached = TRUE, !.file = f]
            ELSE ScanFilesOffByOne(files, i + 1, limit,
                                   [st EXCEPT !.current_size = size, !.file = f,
                                              !.added = st.added \cup {f}])

\* ScanFiles with a limit of 0 taken for a budget of no bytes.
RECURSIVE ScanFilesZeroIsABudget(_, _, _, _)
ScanFilesZeroIsABudget(files, i, limit, st) ==
    IF i > Len(files) THEN st
    ELSE LET f == files[i]
             size == st.current_size + StatSize(f)
         IN IF is_forbidden_path(f)
            THEN ScanFilesZeroIsABudget(files, i + 1, limit, [st EXCEPT !.file = f])
            ELSE IF size > limit
            THEN [st EXCEPT !.current_size = size, !.limit_reached = TRUE, !.file = f]
            ELSE ScanFilesZeroIsABudget(files, i + 1, limit,
                                        [st EXCEPT !.current_size = size, !.file = f,
                                                   !.added = st.added \cup {f}])

\* ScanFiles with the size of a forbidden file added to the running total
\* before the file is skipped.
RECURSIVE ScanFilesCountsForbidden(_, _, _, _)
ScanFilesCountsForbidden(files, i, limit, st) ==
    IF i > Len(files) THEN st
    ELSE LET f == files[i]
             size == st.current_size + StatSize(f)
         IN IF is_forbidden_path(f)
            THEN ScanFilesCountsForbidden(files, i + 1, limit,
                                          [st EXCEPT !.current_size = size, !.file = f])
            ELSE IF limit # 0 /\ size > limit
            THEN [st EXCEPT !.current_size = size, !.limit_reached = TRUE, !.file = f]
            ELSE ScanFilesCountsForbidden(files, i + 1, limit,
                                          [st EXCEPT !.current_size = size, !.file = f,
                                                     !.added = st.added \cup {f}])

\* The loop `for _file in files` of add_copy_spec.
RECURSIVE ScanFiles(_, _, _, _)
ScanFiles(files, i, limit, st) ==
    IF i > Len(files) THEN st
    ELSE LET f == files[i]
             size == st.current_size + StatSize(f)
         IN IF is_forbidden_path(f)
            THEN ScanFiles(files, i + 1, limit, [st EXCEPT !.file = f])
            ELSE IF limit # 0 /\ size > limit
            THEN [st EXCEPT !.current_size = size, !.limit_reached = TRUE, !.file = f]
            ELSE ScanFiles(files, i + 1, limit,
                           [st EXCEPT !.current_size = size, !.file = f,
                                      !.added = st.added \cup {f}])

\* The bytes of a set of files.
RECURSIVE SumSizes(_)
SumSizes(paths) ==
    IF paths = {} THEN 0
    ELSE LET p == CHOOSE p \in paths : TRUE IN StatSize(p) + SumSizes(paths \ {p})

\* A ScanResult whose running total starts from the bytes the patterns before
\* have had accepted: one budget for the whole call.
ScanResultSharedBudget(st, files, limit, tailit) ==
    LET r == ScanFiles(files, 1, limit, [ScanStart EXCEPT !.current_size = SumSizes(st.paths)])
        strfile == TailedName(r.file)
        link_path == PathJoin(PathJoin(PathJoin(RelPathToRoot(Dirname(r.file)),
                                                StringsDir), PluginName), strfile)
        tailed == r.limit_reached /\ tailit /\ ~file_is_compressed(r.file)
    IN [paths |-> st.paths \cup r.added,
        strings |-> IF tailed
                    THEN add_string_as_file(st.strings, tail(r.file, limit), strfile, NoPred)
                    ELSE st.strings,
        arch |-> IF tailed
                 THEN Put(st.arch, r.file, Entry("link", NoPath, link_path, 0, <<>>))
                 ELSE st.arch,
        files |-> st.files \o <<files>>]

\* A ScanResult that writes the link for the file over the limit even when the
\* file is not tailed.
ScanResultLinksUntailed(st, files, limit, tailit) ==
    LET r == ScanFiles(files, 1, limit, ScanStart)
        strfile == TailedName(r.file)
        link_path == PathJoin(PathJoin(PathJoin(RelPathToRoot(Dirname(r.file)),
                                                StringsDir), PluginName), strfile)
        tailed == r.limit_reached /\ tailit /\ ~file_is_compressed(r.file)
    IN [paths |-> st.paths \cup r.added,
        strings |-> IF tailed
                    THEN add_string_as_file(st.strings, tail(r.file, limit), strfile, NoPred)
                    ELSE st.strings,
        arch |-> IF r.limit_reached
                 THEN Put(st.arch, r.file, Entry("link", NoPath, link_path, 0, <<>>))
                 ELSE st.arch,
        files |-> st.files \o <<files>>]

\* What add_copy_spec does with one sorted file list: the paths, strings and
\* archive after the loop and the tail fallback.
ScanResult(st, files, limit, tailit) ==
    LET r == ScanFiles(files, 1, limit, ScanStart)
        strfile == TailedName(r.file)
        link_path == PathJoin(PathJoin(PathJoin(RelPathToRoot(Dirname(r.file)),
                                                StringsDir), PluginName), strfile)
        tailed == r.limit_reached /\ tailit /\ ~file_is_compressed(r.file)
    IN [paths |-> st.paths \cup r.added,
        strings |-> IF tailed
                    THEN add_string_as_file(st.strings, tail(r.file, limit), strfile, NoPred)
                    ELSE st.strings,
        arch |-> IF tailed
                 THEN Put(st.arch, r.file, Entry("link", NoPath, link_path, 0, <<>>))
                 ELSE st.arch,
        files |-> st.files \o <<files>>]

\* The loop `for copyspec in copyspecs` of add_copy_spec from its i-th pattern on:
\* every outcome the order of the files allows.
RECURSIVE CopySpecLoop(_, _, _, _, _)
CopySpecLoop(copyspecs, i, limit, tailit, st) ==
    IF i > Len(copyspecs) \/ copyspecs[i] = <<>> THEN {st}
    ELSE LET copyspec == IF use_sysroot THEN join_sysroot(copyspecs[i]) ELSE copyspecs[i]
             files == expand_copy_spec(copyspec)
         IN IF files = {}
            THEN CopySpecLoop(copyspecs, i + 1, limit, tailit,
                              [st EXCEPT !.files = st.files \o << <<>> >>])
            ELSE UNION {CopySpecLoop(copyspecs, i + 1, limit, tailit,
                                     ScanResult(st, q, limit, tailit)) :
                        q \in SortedNewestFirst(files)}

\* Plugin.add_copy_spec
add_copy_spec(copyspecs, sizelimit, tailit, pred) ==
    LET limit == EffectiveLimit(sizelimit)
        st0 == [paths |-> copy_paths, strings |-> copy_strings, arch |-> archive,
                files |-> <<>>]
        outcomes == IF ~test_predicate(FALSE, pred) THEN {st0}
                    ELSE CopySpecLoop(copyspecs, 1, limit, tailit, st0)
    IN \E r \in outcomes :
        /\ copy_paths' = r.paths
        /\ copy_strings' = r.strings
        /\ archive' = r.arch
        /\ last_call' = [op |-> "add_copy_spec", n |-> last_call.n + 1,
                         args |-> [copyspecs |-> copyspecs, sizelimit |-> sizelimit,
                                   tailit |-> tailit, pred |-> pred, limit |-> limit,
                                   files |-> r.files]]
        /\ ret' = None
        /\ UNCHANGED <<host, preds, forbidden_paths, collect_cmds, ledgers,
                       timeout_hit, dispatched, pc, frame>>

\* ------------------------------------------------------------------- inputs

AllLogs == LogDir \o <<"/", "*">>

\* The copy specs a plugin passes: one pattern, one path, or two of them.
CopySpecs ==
    {<<AllLogs>>, <<LogFile(1)>>, <<LogFile(2), AllLogs>>, <<LogFile(1), LogFile(2)>>}

\* sizelimit arguments, in MB: the default, "no limit", and two budgets.
SizeLimits == {None, 0, 15}

ForbiddenArgs == {LogFile(1), LogDir}

DirStat == [type |-> "dir", size |-> 0, mtime |-> 1, statok |-> TRUE, readable |-> TRUE,
            target |-> NoPath, entries |-> {}, text |-> <<>>, listdir |-> ""]

RegStat(size, mtime) ==
    [type |-> "reg", size |-> size, mtime |-> mtime, statok |-> TRUE, readable |-> TRUE,
     target |-> NoPath, entries |-> {}, text |-> <<>>, listdir |-> ""]

NoCall == [op |-> "none", n |-> 0, args |-> <<>>]

NoFrame == [op |-> "none"]

\* The options of a run that collects logs under the default budget of 10 MB.
Commons(sysroot, all_logs) ==
    [sysroot |-> sysroot, chroot |-> "auto", log_size |-> 10, all_logs |-> all_logs,
     dry_run |-> FALSE, loaded_kmods |-> {}, running_services |-> {},
     cmddir |-> <<"sos_commands">>, name_max |-> 8, py3 |-> FALSE]

\* The state of a plugin right after Plugin.__init__.
Constructed ==
    /\ predicate = SoSPredicate(FALSE, {}, {})
    /\ cmd_predicate = NoPred
    /\ forbidden_paths = {}
    /\ copy_paths = {}
    /\ copy_strings = <<>>
    /\ collect_cmds = <<>>
    /\ copied_files = <<>>
    /\ executed_commands = <<>>
    /\ timeout_hit = FALSE
    /\ archive = <<>>
    /\ dispatched = <<>>
    /\ frame = NoFrame
    /\ last_call = NoCall
    /\ ret = None

\* --------------------------------------------- specification: add_copy_spec

LogSizes == {5 * MB, 10 * MB}

LogMtimes == {1, 2}

\* A log directory whose files have any of the sizes and ages above.
CopySpecInit ==
    /\ \E sysroot \in {Root, AltRoot}, all_logs \in BOOLEAN :
            commons = Commons(sysroot, all_logs)
    /\ \E size \in [1..MaxLogFiles -> LogSizes], mtime \in [1..MaxLogFiles -> LogMtimes] :
            fs = [p \in {HostPath(LogFile(i)) : i \in 1..MaxLogFiles} |->
                    LET i == CHOOSE i \in 1..MaxLogFiles : HostPath(LogFile(i)) = p
                    IN RegStat(size[i], mtime[i])]
                 @@ (HostPath(LogDir) :> DirStat)
    /\ Constructed
    /\ pc = "setup"

CopySpecForbid ==
    /\ last_call.op = "none"
    /\ \E f \in ForbiddenArgs : add_forbidden_path(f)

CopySpecAdd ==
    /\ last_call.op # "add_copy_spec"
    /\ \E copyspecs \in CopySpecs, sizelimit \in SizeLimits, tailit \in BOOLEAN :
            add_copy_spec(copyspecs, sizelimit, tailit, NoPred)

CopySpecNext == CopySpecForbid \/ CopySpecAdd

SpecCopySpec == CopySpecInit /\ [][CopySpecNext]_vars

\* ------------------------------------------------- claims on add_copy_spec

RECURSIVE SelectSeq2(_, _)
\* The files of a list that are not forbidden, in the list's order.
SelectSeq2(files, i) ==
    IF i > Len(files) THEN <<>>
    ELSE (IF is_forbidden_path(files[i]) THEN <<>> ELSE <<files[i]>>)
         \o SelectSeq2(files, i + 1)

Candidates(files) == SelectSeq2(files, 1)

RECURSIVE PrefixSize(_, _)
\* The bytes of the first k candidates.
PrefixSize(cands, k) == IF k = 0 THEN 0 ELSE PrefixSize(cands, k - 1) + StatSize(cands[k])

\* How many candidates the longest prefix within the budget holds.
LongestPrefix(cands, limit) ==
    CHOOSE k \in 0..Len(cands) :
        /\ PrefixSize(cands, k) <= limit
        /\ \A j \in 0..Len(cands) : PrefixSize(cands, j) <= limit => j <= k

\* The last call was add_copy_spec with one pattern under a positive byte budget.
OneGlobCall ==
    /\ last_call.op = "add_copy_spec"
    /\ Len(last_call.args.copyspecs) = 1
    /\ Len(last_call.args.files) = 1
    /\ last_call.args.limit > 0

TailString(path, nbytes) ==
    [content |-> [src |-> path, nbytes |-> nbytes, text |-> <<>>],
     filename |-> TailedName(path)]

IsTailed(path) ==
    /\ path \in DOMAIN archive
    /\ archive[path].kind = "link"
    /\ \E i \in 1..Len(copy_strings) :
            /\ copy_strings[i].filename = TailedName(path)
            /\ copy_strings[i].content.src = path

\* C4: for one glob pattern under a positive byte budget, the files added to
\* copy_paths are exactly the longest prefix of the non-forbidden candidates
\* (newest first) whose sizes sum to at most the budget; the next candidate, the
\* first one that would exceed the budget, is tailed when tailit is set and it is
\* not compressed, and dropped otherwise; nothing after it is added or tailed.
C4_LongestPrefixWithinBudget ==
    OneGlobCall =>
        LET cands == Candidates(last_call.args.files[1])
            k == LongestPrefix(cands, last_call.args.limit)
            tailed == {p \in DOMAIN fs : IsTailed(p)}
        IN /\ copy_paths = {cands[i] : i \in 1..k}
           /\ IF k < Len(cands) /\ last_call.args.tailit
                 /\ ~file_is_compressed(cands[k + 1])
              THEN tailed = {cands[k + 1]} /\ Len(copy_strings) = 1
              ELSE DOMAIN archive = {} /\ copy_strings = <<>>

\* C4 witness: three files of 10 MB under a budget of 15 MB: one is collected in
\* full, one is tailed or dropped, the third is left alone.
C4_Witness ==
    /\ OneGlobCall
    /\ last_call.args.limit = 15 * MB
    /\ Len(Candidates(last_call.args.files[1])) = 3
    /\ \A i \in 1..3 : StatSize(last_call.args.files[1][i]) = 10 * MB
    /\ Cardinality(copy_paths) = 1
    /\ Len(copy_strings) = 1

\* C5: the bytes collected for one glob, the accepted files plus the bytes of the
\* '.tailed' string, never exceed the budget.
C5_TailWithinRemainingBudget ==
    OneGlobCall =>
        \A i \in 1..Len(copy_strings) :
            SumSizes(copy_paths) + copy_strings[i].content.nbytes <= last_call.args.limit

\* ------------------------------------------------------ command file names

Letters == {"a", "b", "c", "d", "e", "f", "g", "h", "i", "j", "k", "l", "m", "n",
            "o", "p", "q", "r", "s", "t", "u", "v", "w", "x", "y", "z"}

Digits == <<"0", "1", "2", "3", "4", "5", "6", "7", "8", "9">>

\* \w of Python's re
IsWord(c) == c \in Letters \/ c = "_" \/ \E d \in 1..10 : Digits[d] = c

\* "%d" % n for n >= 0
RECURSIVE Decimal(_)
Decimal(n) == IF n < 10 THEN <<Digits[n + 1]>> ELSE Decimal(n \div 10) \o <<Digits[(n % 10) + 1]>>

BinDirs == {<<"/", "u", "s", "r", "/", "b", "i", "n", "/">>, <<"/", "b", "i", "n", "/">>,
            <<"/", "u", "s", "r", "/", "s", "b", "i", "n", "/">>,
            <<"/", "s", "b", "i", "n", "/">>}

\* re.sub(r"^/(usr/|)(bin|sbin)/", "", command)
StripBinDir(command) ==
    IF \E d \in BinDirs : StartsWith(command, d)
    THEN LET d == CHOOSE d \in BinDirs : StartsWith(command, d) IN Drop(command, Len(d))
    ELSE command

\* re.sub(r"[^\w\-\.\/]+", "_", name): each run of other characters becomes one "_"
RECURSIVE CollapseOthers(_, _)
CollapseOthers(name, inrun) ==
    IF name = <<>> THEN <<>>
    ELSE LET c == Head(name)
             keep == IsWord(c) \/ c = "-" \/ c = "." \/ c = "/"
         IN IF keep THEN <<c>> \o CollapseOthers(Tail(name), FALSE)
            ELSE (IF inrun THEN <<>> ELSE <<"_">>) \o CollapseOthers(Tail(name), TRUE)

StripChars == {" ", ".", "_", "-"}

RECURSIVE LStripSet(_)
LStripSet(name) ==
    IF name # <<>> /\ Head(name) \in StripChars THEN LStripSet(Tail(name)) ELSE name

RECURSIVE RStripSet(_)
RStripSet(name) ==
    IF name # <<>> /\ name[Len(name)] \in StripChars
    THEN RStripSet(SubSeq(name, 1, Len(name) - 1)) ELSE name

\* _mangle_command
mangle_command(command, name_max) ==
    LET n1 == StripBinDir(command)
        n2 == CollapseOthers(n1, FALSE)
        n3 == RStripSet(LStripSet(Replace(n2, "/", ".")))
    IN SubSeq(n3, 1, Min(Len(n3), name_max))

\* os.path.exists(outfn) as _make_command_filename asks it: whether the archive's
\* tree holds an entry there.
PathExists(arch, path) == path \in DOMAIN arch

RECURSIVE FirstFree(_, _, _)
\* The loop `while True` of _make_command_filename from suffix inc on.
FirstFree(arch, outfn, inc) ==
    LET newfn == outfn \o <<"_">> \o Decimal(inc)
    IN IF ~PathExists(arch, newfn) THEN newfn ELSE FirstFree(arch, outfn, inc + 1)

\* subdir.split('/')[0]
FirstPart(subdir) ==
    LET cut == {i \in 1..Len(subdir) : subdir[i] = "/"}
    IN IF cut = {} THEN subdir
       ELSE SubSeq(subdir, 1, (CHOOSE i \in cut : \A j \in cut : i <= j) - 1)

\* A _make_command_filename that does not ask whether the name is taken.
MakeCommandFilenameUnchecked(arch, exe, subdir) ==
    PathJoin(PathJoin(commons.cmddir,
                      IF subdir # <<>> THEN PluginName \o <<"/">> \o FirstPart(subdir)
                      ELSE PluginName),
             mangle_command(exe, commons.name_max))

\* Plugin._make_command_filename
make_command_filename(arch, exe, subdir) ==
    LET plugin_dir == IF subdir # <<>> THEN PluginName \o <<"/">> \o FirstPart(subdir)
                      ELSE PluginName
        outfn == PathJoin(PathJoin(commons.cmddir, plugin_dir),
                          mangle_command(exe, commons.name_max))
    IN IF PathExists(arch, outfn) THEN FirstFree(arch, outfn, 2) ELSE outfn

\* ------------------------------------------------------------ substitution

Begin == <<"-", "-", "-", "-", "-", "B", "E", "G", "I", "N">>

End == <<"-", "-", "-", "-", "-", "E", "N", "D">>

Scrubbed == <<"-", "-", "-", "-", "-", "S", "C", "R", "U", "B", "B", "E", "D">>

\* The first index >= i at which pattern starts in s, 0 when there is none.
FindFrom(s, pattern, i) ==
    LET hits == {j \in i..(Len(s) - Len(pattern) + 1) :
                    SubSeq(s, j, j + Len(pattern) - 1) = pattern}
    IN IF hits = {} THEN 0 ELSE CHOOSE j \in hits : \A k \in hits : j <= k

RECURSIVE CertSubnFrom(_, _)
\* re.compile("-----BEGIN.*?-----END", re.DOTALL).subn("-----SCRUBBED", s) from
\* index i on: the leftmost BEGIN that an END follows is replaced up to the first
\* such END, and the scan goes on behind it.
CertSubnFrom(s, i) ==
    IF i > Len(s) THEN [text |-> <<>>, n |-> 0]
    ELSE LET end == IF SubSeq(s, i, Min(Len(s), i + Len(Begin) - 1)) = Begin
                    THEN FindFrom(s, End, i + Len(Begin)) ELSE 0
         IN IF end # 0
            THEN LET r == CertSubnFrom(s, end + Len(End))
                 IN [text |-> Scrubbed \o r.text, n |-> r.n + 1]
            ELSE LET r == CertSubnFrom(s, i + 1)
                 IN [text |-> <<s[i]>> \o r.text, n |-> r.n]

\* certmatch.subn("-----SCRUBBED", content) of do_cmd_private_sub
certmatch_subn(s) == CertSubnFrom(s, 1)

RECURSIVE ReSubnFrom(_, _, _, _)
\* re.subn(regexp, subst, s) from index i on, for a regexp that is a literal text.
ReSubnFrom(regexp, subst, s, i) ==
    IF i > Len(s) THEN [text |-> <<>>, n |-> 0]
    ELSE IF SubSeq(s, i, Min(Len(s), i + Len(regexp) - 1)) = regexp
    THEN LET r == ReSubnFrom(regexp, subst, s, i + Len(regexp))
         IN [text |-> subst \o r.text, n |-> r.n + 1]
    ELSE LET r == ReSubnFrom(regexp, subst, s, i + 1)
         IN [text |-> <<s[i]>> \o r.text, n |-> r.n]

\* re.subn(regexp, subst, content) of do_cmd_output_sub and do_file_sub
re_subn(regexp, subst, s) == ReSubnFrom(regexp, subst, s, 1)

\* fnmatch.fnmatch(exe, '*' + cmd + '*') for a cmd without wildcards
fnmatch_around(exe, cmd) == Contains(exe, cmd)

\* The locals of a substitution call as its loop starts.
\* counts lists what each entry read gave; at is the record an exception came from.
SubStart ==
    [arch |-> archive, replacements |-> None, counts |-> <<>>, raised |-> FALSE, at |-> 0]

\* An exception handler that keeps the count of the entry before.
SubFailedKeepsCount(st, i) == [st EXCEPT !.raised = TRUE, !.at = i]

\* `except Exception` of either loop: the call gives up at record i.
SubFailed(st, i) == [st EXCEPT !.replacements = None, !.raised = TRUE, !.at = i]

\* A loop that takes binary output as well.
SkippedUnlessBinary(called, cmd) ==
    called.file = NoPath \/ ~fnmatch_around(called.exe, cmd)

\* The records either loop passes over: nothing collected, binary output, or a
\* command the glob does not match.
Skipped(called, cmd) ==
    called.file = NoPath \/ called.binary = "yes" \/ ~fnmatch_around(called.exe, cmd)

\* SubEntry that drops the result instead of writing it back to the archive.
SubEntryNoWrite(st, path, r) ==
    [st EXCEPT !.replacements = r.n, !.counts = Append(st.counts, r.n)]

\* One matching entry of either loop: the archived copy is read, and written back
\* when something was replaced; a copy that cannot be opened raises.
SubEntry(st, path, r) ==
    [st EXCEPT !.arch = IF r.n # 0
                        THEN Put(st.arch, path, Entry("string", NoPath, NoPath, 0, r.text))
                        ELSE st.arch,
               !.replacements = r.n, !.counts = Append(st.counts, r.n)]

RECURSIVE PrivateSubLoop(_, _, _)
\* The try block of do_cmd_private_sub from the i-th executed command on.
PrivateSubLoop(cmd, i, st) ==
    IF i > Len(executed_commands) THEN st
    ELSE LET called == executed_commands[i]
             path == PathJoin(commons.cmddir, called.file)
         IN IF Skipped(called, cmd)
            THEN PrivateSubLoop(cmd, i + 1, st)
            ELSE IF path \notin DOMAIN st.arch
            THEN SubFailed(st, i)
            ELSE PrivateSubLoop(cmd, i + 1,
                                SubEntry(st, path, certmatch_subn(st.arch[path].text)))

\* Plugin.do_cmd_private_sub
do_cmd_private_sub(cmd) ==
    LET r == IF executed_commands = <<>> THEN [SubStart EXCEPT !.replacements = 0]
             ELSE PrivateSubLoop(cmd, 1, SubStart)
    IN /\ archive' = r.arch
       /\ ret' = r.replacements
       /\ last_call' = [op |-> "do_cmd_private_sub", n |-> 0,
                        args |-> [cmd |-> cmd, regexp |-> <<>>, subst |-> <<>>]]
       /\ frame' = [op |-> "do_cmd_private_sub", counts |-> r.counts, raised |-> r.raised,
                    at |-> r.at]
       /\ UNCHANGED <<host, preds, forbidden_paths, copy_paths, copy_strings,
                      collect_cmds, ledgers, timeout_hit, dispatched, pc>>

RECURSIVE OutputSubLoop(_, _, _, _, _)
\* The try block of do_cmd_output_sub from the i-th executed command on.
OutputSubLoop(cmd, regexp, subst, i, st) ==
    IF i > Len(executed_commands) THEN st
    ELSE LET called == executed_commands[i]
             path == PathJoin(commons.cmddir, called.file)
         IN IF Skipped(called, cmd)
            THEN OutputSubLoop(cmd, regexp, subst, i + 1, st)
            ELSE IF path \notin DOMAIN st.arch
            THEN SubFailed(st, i)
            ELSE OutputSubLoop(cmd, regexp, subst, i + 1,
                               SubEntry(st, path, re_subn(regexp, subst, st.arch[path].text)))

\* Plugin.do_cmd_output_sub
do_cmd_output_sub(cmd, regexp, subst) ==
    LET r == IF executed_commands = <<>> THEN [SubStart EXCEPT !.replacements = 0]
             ELSE OutputSubLoop(cmd, regexp, subst, 1, SubStart)
    IN /\ archive' = r.arch
       /\ ret' = r.replacements
       /\ last_call' = [op |-> "do_cmd_output_sub", n |-> 0,
                        args |-> [cmd |-> cmd, regexp |-> regexp, subst |-> subst]]
       /\ frame' = [op |-> "do_cmd_output_sub", counts |-> r.counts, raised |-> r.raised,
                    at |-> r.at]
       /\ UNCHANGED <<host, preds, forbidden_paths, copy_paths, copy_strings,
                      collect_cmds, ledgers, timeout_hit, dispatched, pc>>

\* --------------------------------------------- specification: substitution

Pieces == <<Begin, End, <<"\n">> >>

\* The commands a run may have collected: two as text, one as binary output.
CmdKinds == {[exe |-> <<"l", "s">>, binary |-> FALSE],
             [exe |-> <<"p", "s">>, binary |-> FALSE],
             [exe |-> <<"l", "s">>, binary |-> TRUE]}

\* The command names substitution calls pass: both commands, one, none.
SubCmds == {<<"s">>, <<"l", "s">>, <<"z">>}

RECURSIVE Flatten(_, _, _)
\* The text made of pieces from..to of a list of piece numbers.
Flatten(pieces, from, to) ==
    IF from > to THEN <<>> ELSE Pieces[pieces[from]] \o Flatten(pieces, from + 1, to)

RECURSIVE SumTo(_, _)
SumTo(lens, k) == IF k = 0 THEN 0 ELSE SumTo(lens, k - 1) + lens[k]

RECURSIVE Collected(_, _, _, _, _)
\* The ledger and archive a run leaves that collected commands i.. of the given
\* ones, each named by _make_command_filename as it was collected.
Collected(exes, bins, texts, i, st) ==
    IF i > Len(exes) THEN st
    ELSE LET next == {[arch |-> Put(st.arch, outfn,
                                    Entry(IF bins[i] THEN "binary" ELSE "string",
                                          NoPath, NoPath, 0, texts[i])),
                       cmds |-> Append(st.cmds,
                                       [exe |-> exes[i],
                                        file |-> Drop(outfn, Len(commons.cmddir) + 1),
                                        binary |-> IF bins[i] THEN "yes" ELSE "no"])] :
                      outfn \in {make_command_filename(st.arch, exes[i], <<>>)}}
         IN CHOOSE r \in {Collected(exes, bins, texts, i + 1, s) : s \in next} : TRUE

SubInit ==
    /\ commons = Commons(Root, FALSE)
    /\ fs = <<>>
    /\ predicate = SoSPredicate(FALSE, {}, {})
    /\ cmd_predicate = NoPred
    /\ forbidden_paths = {}
    /\ copy_paths = {}
    /\ copy_strings = <<>>
    /\ collect_cmds = <<>>
    /\ copied_files = <<>>
    /\ timeout_hit = FALSE
    /\ dispatched = <<>>
    /\ frame = NoFrame
    /\ last_call = NoCall
    /\ ret = None
    /\ pc = "postproc"
    /\ \E n \in 0..MaxCmds :
       \E kinds \in [1..n -> CmdKinds], lens \in [1..n -> 0..MaxPieces] :
            /\ SumTo(lens, n) <= MaxPieces
            /\ \E pieces \in [1..SumTo(lens, n) -> 1..Len(Pieces)] :
                LET texts == [k \in 1..n |->
                                Flatten(pieces, SumTo(lens, k - 1) + 1, SumTo(lens, k))]
                    exes == [k \in 1..n |-> kinds[k].exe]
                    bins == [k \in 1..n |-> kinds[k].binary]
                    st == Collected(exes, bins, texts, 1, [arch |-> <<>>, cmds |-> <<>>])
                IN /\ executed_commands = st.cmds
                   /\ \E lost \in 0..n :
                        archive = [path \in DOMAIN st.arch \
                                        (IF lost = 0 THEN {}
                                         ELSE {PathJoin(commons.cmddir, st.cmds[lost].file)})
                                   |-> st.arch[path]]

SubPrivate == \E cmd \in SubCmds : do_cmd_private_sub(cmd)

SubOutput ==
    \E cmd \in SubCmds, regexp \in {<<"\n">>}, subst \in {<<>>} :
        do_cmd_output_sub(cmd, regexp, subst)

SubNext == SubPrivate \/ SubOutput

SpecSub == SubInit /\ [][SubNext]_vars

\* -------------------------------------------------- claims on substitution

RECURSIVE SumSeq(_)
SumSeq(counts) == IF counts = <<>> THEN 0 ELSE Head(counts) + SumSeq(Tail(counts))

\* C9: in the state a do_cmd_private_sub call leaves, running it again with the
\* same command name changes no archive entry and replaces nothing: every entry it
\* reads gives 0 replacements and it returns no positive count.
C9_RedactionIdempotent ==
    last_call.op = "do_cmd_private_sub" =>
        LET again == IF executed_commands = <<>> THEN [SubStart EXCEPT !.replacements = 0]
                     ELSE PrivateSubLoop(last_call.args.cmd, 1, SubStart)
        IN /\ again.arch = archive
           /\ \A i \in 1..Len(again.counts) : again.counts[i] = 0
           /\ again.replacements \in {0, None}

\* C9 witness: a scrubbing call has replaced a BEGIN...END span in an output it
\* matched, which now holds the redaction token.
C9_Witness ==
    /\ last_call.op = "do_cmd_private_sub"
    /\ ret > 0
    /\ \E i \in 1..Len(executed_commands) :
            /\ executed_commands[i].binary = "no"
            /\ fnmatch_around(executed_commands[i].exe, last_call.args.cmd)
            /\ Contains(archive[PathJoin(commons.cmddir, executed_commands[i].file)].text,
                        Scrubbed)

\* C10: do_cmd_output_sub returns the replacements made in all the outputs it
\* rewrote together, the sum over every matching entry.
C10_ReturnsTotalCount ==
    (last_call.op = "do_cmd_output_sub" /\ ~frame.raised /\ frame.counts # <<>>)
        => ret = SumSeq(frame.counts)

\* The archive path of the i-th command collected.
CalledPath(i) == PathJoin(commons.cmddir, executed_commands[i].file)

IsSubCall(op) == op \in {"do_cmd_private_sub", "do_cmd_output_sub"}

\* C11: a substitution call that met no error and read no entry (nothing matched
\* the glob, or every match was binary or had no file) returns 0, also when
\* executed_commands is not empty.
C11_ZeroWhenNothingMatched ==
    (IsSubCall(last_call.op) /\ ~frame.raised /\ frame.counts = <<>>) => ret = 0

\* C12: when reading a matching entry raises, the call returns None whatever it
\* replaced before, raises nothing to its caller and leaves the entries of the
\* records behind the failing one as they were.
C12_FailureAbortsTheCall ==
    [][(IsSubCall(last_call'.op) /\ frame'.raised) =>
        /\ ret' = None
        /\ pc' = pc
        /\ \A i \in (frame'.at + 1)..Len(executed_commands) :
                CalledPath(i) \in DOMAIN archive =>
                    archive'[CalledPath(i)] = archive[CalledPath(i)]]_vars

\* A call that had replaced something in a first output failed on a second one.
C12_Witness ==
    /\ IsSubCall(last_call.op)
    /\ frame.raised
    /\ frame.at = 2
    /\ frame.counts = <<1>>
    /\ ret = None

\* C13: no substitution call changes the archived output of a command recorded as
\* binary.
C13_BinaryOutputUntouched ==
    [][\A i \in 1..Len(executed_commands) :
            (executed_commands[i].binary = "yes" /\ CalledPath(i) \in DOMAIN archive)
                => /\ CalledPath(i) \in DOMAIN archive'
                   /\ archive'[CalledPath(i)] = archive[CalledPath(i)]]_vars

\* A call whose glob matches a binary output that holds the pattern has run, and
\* the pattern is still there.
C13_Witness ==
    /\ last_call.op = "do_cmd_output_sub"
    /\ \E i \in 1..Len(executed_commands) :
            /\ executed_commands[i].binary = "yes"
            /\ fnmatch_around(executed_commands[i].exe, last_call.args.cmd)
            /\ CalledPath(i) \in DOMAIN archive
            /\ Contains(archive[CalledPath(i)].text, last_call.args.regexp)

\* ------------------------------------------------------------ path algebra

\* The components of a path: the pieces between its slashes, empty ones left out.
RECURSIVE SplitPath(_, _)
SplitPath(path, cur) ==
    IF path = <<>> THEN (IF cur = <<>> THEN <<>> ELSE <<cur>>)
    ELSE IF Head(path) = "/"
         THEN (IF cur = <<>> THEN <<>> ELSE <<cur>>) \o SplitPath(Tail(path), <<>>)
         ELSE SplitPath(Tail(path), Append(cur, Head(path)))

RECURSIVE JoinComponents(_)
JoinComponents(comps) ==
    IF comps = <<>> THEN <<>>
    ELSE IF Len(comps) = 1 THEN comps[1]
    ELSE comps[1] \o <<"/">> \o JoinComponents(Tail(comps))

RECURSIVE Collapse(_, _, _)
\* The components left once '.' is dropped and '..' has taken back the component
\* before it.
Collapse(comps, out, absolute) ==
    IF comps = <<>> THEN out
    ELSE LET c == Head(comps)
         IN IF c = <<".">> THEN Collapse(Tail(comps), out, absolute)
            ELSE IF c # <<".", ".">> THEN Collapse(Tail(comps), Append(out, c), absolute)
            ELSE IF out # <<>> /\ out[Len(out)] # <<".", ".">>
                 THEN Collapse(Tail(comps), SubSeq(out, 1, Len(out) - 1), absolute)
            ELSE IF absolute THEN Collapse(Tail(comps), out, absolute)
            ELSE Collapse(Tail(comps), Append(out, c), absolute)

\* os.path.isabs
isabs(path) == path # <<>> /\ Head(path) = "/"

\* os.path.normpath
normpath(path) ==
    LET comps == Collapse(SplitPath(path, <<>>), <<>>, isabs(path))
    IN IF isabs(path) THEN <<"/">> \o JoinComponents(comps)
       ELSE IF comps = <<>> THEN <<".">> ELSE JoinComponents(comps)

RECURSIVE CommonLen(_, _)
CommonLen(a, b) ==
    IF a = <<>> \/ b = <<>> \/ Head(a) # Head(b) THEN 0
    ELSE 1 + CommonLen(Tail(a), Tail(b))

\* os.path.relpath(path, start) for absolute paths
relpath(path, start) ==
    LET p == SplitPath(normpath(path), <<>>)
        q == SplitPath(normpath(start), <<>>)
        i == CommonLen(p, q)
        rel == [k \in 1..(Len(q) - i) |-> <<".", ".">>] \o Drop(p, i)
    IN IF rel = <<>> THEN <<".">> ELSE JoinComponents(rel)

\* How many symbolic links the kernel follows before it gives up with ELOOP.
MaxLinkHops == 3

\* The absolute path of a list of components.
AbsPath(comps) == <<"/">> \o JoinComponents(comps)

\* The names fs lists, or implies, right under the directory dir.
Children(dir) ==
    LET prefix == IF dir = Root THEN dir ELSE dir \o <<"/">>
    IN {SplitPath(Drop(q, Len(prefix)), <<>>)[1] :
            q \in {r \in DOMAIN fs : StartsWith(r, prefix) /\ Len(r) > Len(prefix)}}

\* What lstat has to show where there is nothing.
NoNode == [DirStat EXCEPT !.type = "none", !.statok = FALSE]

\* What is at the path p, no link followed: fs lists the files of interest and
\* the directories above them are there too.
Node(p) ==
    IF p \in DOMAIN fs THEN fs[p]
    ELSE IF Children(p) # {} THEN [DirStat EXCEPT !.entries = Children(p)]
    ELSE NoNode

RECURSIVE Walk(_, _, _, _)
\* The kernel's path walk from the directory cur (a list of components, free of
\* links) along comps: '..' steps to the parent of the directory reached, a link
\* met on the way is followed, the last component only when follow says so; more
\* than hops links end in ELOOP.
Walk(cur, comps, hops, follow) ==
    IF comps = <<>> THEN [errno |-> "", path |-> AbsPath(cur)]
    ELSE LET c == Head(comps)
             rest == Tail(comps)
             p == Append(cur, c)
             n == Node(AbsPath(p))
         IN IF c = <<".">> THEN Walk(cur, rest, hops, follow)
            ELSE IF c = <<".", ".">>
            THEN Walk(IF cur = <<>> THEN cur ELSE SubSeq(cur, 1, Len(cur) - 1),
                      rest, hops, follow)
            ELSE IF n.type = "none" THEN [errno |-> "ENOENT", path |-> AbsPath(p)]
            ELSE IF n.type = "link" /\ (rest # <<>> \/ follow)
            THEN IF hops = 0 THEN [errno |-> "ELOOP", path |-> AbsPath(p)]
                 ELSE Walk(IF isabs(n.target) THEN <<>> ELSE cur,
                           SplitPath(n.target, <<>>) \o rest, hops - 1, follow)
            ELSE IF rest # <<>> /\ n.type # "dir"
            THEN [errno |-> "ENOTDIR", path |-> AbsPath(p)]
            ELSE Walk(p, rest, hops, follow)

\* What following the symbolic links at path ends in: the path reached, or the
\* error os.stat raises.
Follow(path, hops) == Walk(<<>>, SplitPath(path, <<>>), hops, TRUE)

\* os.lstat: the node at path, its last component not followed, or no node
\* where the walk fails.
lstat(path) ==
    LET r == Walk(<<>>, SplitPath(path, <<>>), MaxLinkHops, FALSE)
    IN IF r.errno = "" THEN Node(r.path) ELSE NoNode

\* os.path.isdir
isdir(path) ==
    LET r == Follow(path, MaxLinkHops) IN r.errno = "" /\ Node(r.path).type = "dir"

\* os.path.realpath of a directory
realpath(path) ==
    LET r == Follow(path, MaxLinkHops) IN IF r.errno = "" THEN r.path ELSE path

\* ---------------------------------------------------- queueing of commands

\* SoSCommand: the keyword arguments of _add_cmd_output, kept as attributes.
SoSCommand(cmd, suggest_filename, root_symlink, timeout, stderr, chroot, runat, env, binary, sizelimit, subdir) ==
    [cmd |-> cmd, suggest_filename |-> suggest_filename, root_symlink |-> root_symlink,
     timeout |-> timeout, stderr |-> stderr, chroot |-> chroot, runat |-> runat,
     env |-> env, binary |-> binary, sizelimit |-> sizelimit, subdir |-> subdir]

\* Plugin._add_cmd_output, as a function of the queue
add_one_cmd_output(cmds, soscmd, pred) ==
    IF test_predicate(TRUE, pred) THEN Append(cmds, soscmd) ELSE cmds

RECURSIVE AddCmdLoop(_, _, _, _, _)
\* The loop `for cmd in cmds` of add_cmd_output from its i-th command on; opts
\* holds the arguments every command of the call shares.
AddCmdLoop(queue, cmds, i, opts, pred) ==
    IF i > Len(cmds) THEN queue
    ELSE AddCmdLoop(add_one_cmd_output(queue, [opts EXCEPT !.cmd = cmds[i]], pred),
                    cmds, i + 1, opts, pred)

\* Plugin.add_cmd_output
add_cmd_output(cmds, opts, pred) ==
    LET sizelimit == IF opts.sizelimit = None THEN commons.log_size ELSE opts.sizelimit
    IN /\ collect_cmds' = AddCmdLoop(collect_cmds, cmds, 1,
                                     [opts EXCEPT !.sizelimit = sizelimit], pred)
       /\ last_call' = [op |-> "add_cmd_output", n |-> last_call.n + 1,
                        args |-> [cmds |-> cmds, opts |-> opts, pred |-> pred]]
       /\ ret' = None
       /\ UNCHANGED <<host, preds, forbidden_paths, copy_paths, copy_strings, ledgers,
                      timeout_hit, archive, dispatched, pc, frame>>

\* Plugin.add_string_as_file, called by the plugin's setup()
queue_string(content, filename, pred) ==
    /\ copy_strings' = add_string_as_file(copy_strings,
                                          [src |-> NoPath, nbytes |-> Len(content),
                                           text |-> content], filename, pred)
    /\ last_call' = [op |-> "add_string_as_file", n |-> last_call.n + 1,
                     args |-> [content |-> content, filename |-> filename, pred |-> pred]]
    /\ ret' = None
    /\ UNCHANGED <<host, preds, forbidden_paths, copy_paths, collect_cmds, ledgers,
                   timeout_hit, archive, dispatched, pc, frame>>

\* ---------------------------------------------------------------- collect()

\* A ledger that keeps only its latest record.
RecordLatestOnly(ledger, rec) == <<rec>>

\* copied_files.append, executed_commands.append: the record goes to the end of
\* the ledger.
Record(ledger, rec) == Append(ledger, rec)
\* collect() runs in a worker; it is followed one step at a time: pc names the
\* statement the worker is at and frame holds its locals.

NoResult == [none |-> TRUE, status |-> None, output |-> <<>>]

NoExec == [prog |-> <<>>, timeout |-> 0, stderr |-> TRUE, chroot |-> TRUE,
           runat |-> NoPath, env |-> NoPath, binary |-> FALSE, sizelimit |-> None,
           nested |-> FALSE]

\* The locals of collect() as it starts: the paths still to visit, the directory
\* loops under way, the path at hand, the links whose _copy_symlink calls are
\* under way, the index in the queue at hand, the command
\* at hand and where to go on after it, the arguments and the result of
\* get_command_output, the exception raised.
Collecting ==
    [op |-> "collect", todo |-> copy_paths, stack |-> <<>>, cur |-> NoPath,
     chain |-> <<>>, i |-> 1,
     soscmd |-> NoExec, back |-> "collect_cmd_output", call |-> NoExec,
     result |-> NoResult, exc |-> ""]

\* Plugin.collect, entered
collect ==
    /\ pc = "setup"
    /\ pc' = "collect_copy_specs"
    /\ frame' = Collecting
    /\ last_call' = [op |-> "collect", n |-> 0, args |-> <<>>]
    /\ UNCHANGED <<host, preds, forbidden_paths, copy_paths, copy_strings, collect_cmds,
                   ledgers, timeout_hit, archive, dispatched, ret>>

\* What no step of collect() changes.
fixed == <<host, preds, forbidden_paths, copy_paths, copy_strings, collect_cmds,
           timeout_hit, last_call, ret>>

\* Plugin._collect_copy_specs: the next path of the set, in whatever order the
\* set yields them.
collect_copy_specs ==
    /\ pc = "collect_copy_specs"
    /\ IF frame.todo = {}
       THEN /\ pc' = "collect_cmd_output"
            /\ frame' = [frame EXCEPT !.i = 1]
       ELSE \E path \in frame.todo :
                /\ pc' = "do_copy_path"
                /\ frame' = [frame EXCEPT !.todo = frame.todo \ {path}, !.cur = path,
                                          !.chain = <<>>]
    /\ UNCHANGED <<fixed, ledgers, archive, dispatched>>

\* Plugin.check_timeout
check_timeout == timeout_hit

\* `if self._timeout_hit: return` of _do_copy_path
CopyCancelled == timeout_hit

\* Plugin._do_copy_path up to its dispatch on the kind of file
do_copy_path ==
    /\ pc = "do_copy_path"
    /\ LET srcpath == frame.cur
       IN pc' = IF CopyCancelled THEN "copy_return"
                ELSE IF is_forbidden_path(srcpath) THEN "copy_return"
                ELSE IF lstat(srcpath).type = "none" THEN "copy_return"
                ELSE IF lstat(srcpath).type = "link" THEN "copy_symlink"
                ELSE IF lstat(srcpath).type = "dir" /\ lstat(srcpath).readable
                THEN "copy_dir"
                ELSE "copy_file"
    /\ UNCHANGED <<fixed, ledgers, archive, dispatched, frame>>

\* The call _copy_symlink(srcpath) is made from within a call of itself for the
\* same link: nothing it looks at has changed, so it calls itself again, and
\* again, until the interpreter's recursion limit is hit.
Recurs(srcpath) == \E k \in 1..Len(frame.chain) : frame.chain[k] = srcpath

\* A _copy_symlink that goes on to the target of every link.
SkipTargetNever(absdest, srcpath) == FALSE

\* The two tests of _copy_symlink that keep it from the target of the link:
\* os.stat of the target fails with ELOOP, or the target is the link itself.
SkipTarget(absdest, srcpath) ==
    Follow(absdest, MaxLinkHops).errno = "ELOOP" \/ absdest = srcpath

\* A _copy_symlink that takes no target for a directory.
TargetIsDirNever(absdest) == FALSE

\* `if os.path.isdir(absdest): return` of _copy_symlink
TargetIsDir(absdest) == isdir(absdest)

\* Plugin._copy_symlink. The repetitions of a recursion that has no end are not
\* followed one by one: the step goes to what ends them, the RuntimeError
\* (RecursionError) of the interpreter.
copy_symlink ==
    /\ pc = "copy_symlink"
    /\ LET srcpath == frame.cur
           linkdest == lstat(srcpath).target
           dest == PathJoin(Dirname(srcpath), linkdest)
           absdest == normpath(dest)
           rel == relpath(linkdest, realpath(Dirname(srcpath)))
           reldest == IF ~isabs(linkdest) THEN linkdest
                      ELSE IF use_sysroot THEN Drop(rel, Len(<<"/", ".", ".">>))
                      ELSE rel
           dstpath == strip_sysroot(srcpath)
       IN IF Recurs(srcpath)
          THEN /\ pc' = "raised"
               /\ frame' = [frame EXCEPT !.exc = "RecursionError"]
               /\ UNCHANGED <<archive, copied_files>>
          ELSE /\ archive' = Put(archive, dstpath, Entry("link", NoPath, reldest, 0, <<>>))
               /\ IF TargetIsDir(absdest)
                  THEN /\ pc' = "copy_return"
                       /\ UNCHANGED <<copied_files, frame>>
                  ELSE /\ copied_files' = Record(copied_files,
                                                 [srcpath |-> srcpath, dstpath |-> dstpath,
                                                  symlink |-> "yes", pointsto |-> linkdest])
                       /\ IF SkipTarget(absdest, srcpath)
                          THEN pc' = "copy_return" /\ UNCHANGED frame
                          ELSE /\ pc' = "do_copy_path"
                               /\ frame' = [frame EXCEPT
                                                !.cur = strip_sysroot(absdest),
                                                !.chain = Append(frame.chain, srcpath)]
    /\ UNCHANGED <<fixed, executed_commands, dispatched>>

\* Plugin._copy_dir, entered: os.listdir has answered, with the entries or with an
\* OSError. ELOOP makes _copy_dir return; any other error is raised again, and
\* nothing between here and collect() catches it.
copy_dir ==
    /\ pc = "copy_dir"
    /\ LET errno == lstat(frame.cur).listdir
       IN IF errno = ""
          THEN /\ pc' = "copy_return"
               /\ frame' = [frame EXCEPT !.stack = Append(frame.stack,
                                                          [dir |-> frame.cur,
                                                           rest |-> lstat(frame.cur).entries])]
          ELSE IF errno = "ELOOP"
          THEN pc' = "copy_return" /\ UNCHANGED frame
          ELSE /\ pc' = "raised"
               /\ frame' = [frame EXCEPT !.exc = "OSError"]
    /\ UNCHANGED <<fixed, ledgers, archive, dispatched>>

\* The rest of _do_copy_path: a special node, or a regular file
copy_file ==
    /\ pc = "copy_file"
    /\ LET srcpath == frame.cur
           dest == IF use_sysroot THEN strip_sysroot(srcpath) ELSE srcpath
           st == lstat(srcpath)
       IN IF st.type \notin {"reg", "dir"}
          THEN /\ archive' = Put(archive, srcpath, Entry("node", srcpath, NoPath, 0, <<>>))
               /\ UNCHANGED copied_files
          ELSE /\ archive' = Put(archive, dest,
                                 IF ~st.readable
                                 THEN Entry("string", NoPath, NoPath, 0, <<>>)
                                 ELSE Entry("file", srcpath, NoPath, st.size, st.text))
               /\ copied_files' = Record(copied_files,
                                         [srcpath |-> srcpath, dstpath |-> dest,
                                          symlink |-> "no"])
    /\ pc' = "copy_return"
    /\ UNCHANGED <<fixed, executed_commands, dispatched, frame>>

\* _do_copy_path has returned: to the loop of the innermost _copy_dir, which goes
\* on with its next entry, or to _collect_copy_specs.
copy_return ==
    /\ pc = "copy_return"
    /\ IF frame.stack = <<>>
       THEN pc' = "collect_copy_specs" /\ UNCHANGED frame
       ELSE LET n == Len(frame.stack)
                top == frame.stack[n]
            IN IF top.rest = {}
               THEN /\ pc' = "copy_return"
                    /\ frame' = [frame EXCEPT !.stack = SubSeq(frame.stack, 1, n - 1)]
               ELSE \E afile \in top.rest :
                        /\ pc' = "do_copy_path"
                        /\ frame' = [frame EXCEPT !.stack[n].rest = top.rest \ {afile},
                                                  !.cur = PathJoin(top.dir, afile),
                                                  !.chain = <<>>]
    /\ UNCHANGED <<fixed, ledgers, archive, dispatched>>

\* `if self._timeout_hit: return` of _get_cmd_output_now
CmdCancelled == timeout_hit

\* A _collect_cmd_output that walks the queue from its end.
QueuedCmdLastFirst(i) == collect_cmds[Len(collect_cmds) + 1 - i]

\* `for soscmd in self.collect_cmds`: the command of the i-th turn of the loop
QueuedCmd(i) == collect_cmds[i]

\* Plugin._collect_cmd_output, and _get_cmd_output_now up to its call of
\* get_command_output
collect_cmd_output ==
    /\ pc = "collect_cmd_output"
    /\ IF frame.i > Len(collect_cmds)
       THEN /\ pc' = "collect_strings"
            /\ frame' = [frame EXCEPT !.i = 1]
            /\ UNCHANGED dispatched
       ELSE IF CmdCancelled
       THEN /\ pc' = "collect_cmd_output"
            /\ frame' = [frame EXCEPT !.i = frame.i + 1]
            /\ UNCHANGED dispatched
       ELSE LET soscmd == QueuedCmd(frame.i)
            IN /\ pc' = "get_command_output"
               /\ frame' = [frame EXCEPT !.soscmd = soscmd, !.call =
                                [prog |-> soscmd.cmd, timeout |-> soscmd.timeout,
                                 stderr |-> soscmd.stderr, chroot |-> soscmd.chroot,
                                 runat |-> soscmd.runat, env |-> soscmd.env,
                                 binary |-> soscmd.binary, sizelimit |-> soscmd.sizelimit,
                                 nested |-> FALSE]]
               /\ dispatched' = <<>>
    /\ UNCHANGED <<fixed, ledgers, archive>>

\* `if self._timeout_hit: return` of get_command_output
ExecCancelled == timeout_hit

\* The calls that run a command for the plugin's own use and hand the result of
\* get_command_output back to it.
ExtOps == {"get_command_output", "call_ext_prog", "check_ext_prog"}

\* Where get_command_output returns to: _get_cmd_output_now, or the plugin's call.
Returning == IF frame.op \in ExtOps THEN "ext_return" ELSE "get_cmd_output_now"

\* The exit statuses sos_get_command_output reports: success, timed out, not
\* runnable, not found.
ExitStatuses == {0, 124, 126, 127}

\* What a command prints.
Output == <<"o">>

\* A get_command_output that never runs a command again.
RetryNever(status, root) == FALSE

\* A get_command_output that also leaves the host root for a second run.
RetryFromHostRoot(status, root) ==
    (status = 126 \/ status = 127) /\ root # NoPath /\ commons.chroot # "always"

\* The test of get_command_output for running the command again with no chroot.
retry_in_host(status, root) ==
    /\ status = 126 \/ status = 127
    /\ root # NoPath /\ root # Root
    /\ commons.chroot # "always"

\* Plugin.get_command_output: the command is run under the root chosen, and run
\* again by a nested call when retry_in_host says so. dispatched lists the runs
\* made for the command at hand.
get_command_output ==
    /\ pc = "get_command_output"
    /\ IF ExecCancelled
       THEN /\ pc' = Returning
            /\ frame' = [frame EXCEPT !.result = NoResult]
            /\ UNCHANGED dispatched
       ELSE LET call == frame.call
                root == IF call.chroot \/ commons.chroot = "always"
                        THEN commons.sysroot ELSE NoPath
            IN \E status \in ExitStatuses :
                /\ dispatched' = Append(dispatched,
                        [prog |-> call.prog, timeout |-> call.timeout,
                         stderr |-> call.stderr, chroot |-> root, chdir |-> call.runat,
                         env |-> call.env, binary |-> call.binary,
                         sizelimit |-> call.sizelimit, status |-> status])
                /\ IF retry_in_host(status, root)
                   THEN /\ pc' = "get_command_output"
                        /\ frame' = [frame EXCEPT !.call =
                                        [call EXCEPT !.chroot = FALSE, !.stderr = TRUE,
                                                     !.sizelimit = None, !.nested = TRUE]]
                   ELSE /\ pc' = Returning
                        /\ frame' = [frame EXCEPT !.result =
                                        [none |-> FALSE, status |-> status,
                                         output |-> Output]]
    /\ UNCHANGED <<fixed, ledgers, archive>>

\* Plugin._get_cmd_output_now from the return of get_command_output on: the
\* output is filed and the command recorded. result['output'] of None raises.
get_cmd_output_now ==
    /\ pc = "get_cmd_output_now"
    /\ LET soscmd == frame.soscmd
           outfn == make_command_filename(archive,
                                          IF soscmd.suggest_filename # NoPath
                                          THEN soscmd.suggest_filename ELSE soscmd.cmd,
                                          soscmd.subdir)
           outfn_strip == Drop(outfn, Len(commons.cmddir) + 1)
           filed == Put(archive, outfn,
                        Entry(IF soscmd.binary THEN "binary" ELSE "string",
                              NoPath, NoPath, Len(frame.result.output),
                              frame.result.output))
       IN IF frame.result.none
          THEN /\ pc' = "raised"
               /\ frame' = [frame EXCEPT !.exc = "TypeError"]
               /\ UNCHANGED <<archive, executed_commands, dispatched>>
          ELSE /\ archive' = IF soscmd.root_symlink # NoPath
                             THEN Put(filed, soscmd.root_symlink,
                                      Entry("link", NoPath, outfn, 0, <<>>))
                             ELSE filed
               /\ executed_commands' = Record(executed_commands,
                                              [exe |-> soscmd.cmd, file |-> outfn_strip,
                                               binary |-> IF soscmd.binary THEN "yes"
                                                          ELSE "no"])
               /\ pc' = frame.back
               /\ frame' = IF frame.back = "setup" THEN NoFrame
                            ELSE [frame EXCEPT !.i = frame.i + 1, !.soscmd = NoExec,
                                               !.call = NoExec, !.result = NoResult]
               /\ dispatched' = <<>>
    /\ UNCHANGED <<fixed, copied_files>>

\* A _collect_strings that does not look at the flag.
CancelledNever == FALSE

\* `if self._timeout_hit: return` of _collect_strings
StringsCancelled == timeout_hit

\* A _collect_strings that clears the flag as it starts a turn of its loop.
CollectStringsClearsFlag ==
    /\ pc = "collect_strings"
    /\ pc' = IF frame.i > Len(copy_strings) THEN "done" ELSE "add_string"
    /\ timeout_hit' = FALSE
    /\ UNCHANGED <<host, preds, forbidden_paths, copy_paths, copy_strings, collect_cmds,
                   last_call, ret, ledgers, archive, dispatched, frame>>

\* Plugin._collect_strings: the head of its loop
collect_strings ==
    /\ pc = "collect_strings"
    /\ pc' = IF frame.i > Len(copy_strings) \/ StringsCancelled THEN "done"
             ELSE "add_string"
    /\ UNCHANGED <<fixed, ledgers, archive, dispatched, frame>>

\* Plugin._collect_strings: archive.add_string of the string at hand
add_string ==
    /\ pc = "add_string"
    /\ LET str == copy_strings[frame.i]
       IN archive' = Put(archive, StringDest(str.filename),
                         Entry("string", str.content.src, NoPath, str.content.nbytes,
                               str.content.text))
    /\ pc' = "collect_strings"
    /\ frame' = [frame EXCEPT !.i = frame.i + 1]
    /\ UNCHANGED <<fixed, ledgers, dispatched>>

\* The supervisor of the run gives up on the plugin: it sets _timeout_hit while
\* collect() is at any statement.
SetTimeout ==
    /\ pc \notin {"setup", "postproc", "done", "raised"}
    /\ ~timeout_hit
    /\ timeout_hit' = TRUE
    /\ UNCHANGED <<host, preds, forbidden_paths, copy_paths, copy_strings, collect_cmds,
                   ledgers, archive, dispatched, pc, frame, last_call, ret>>

\* ------------------------------------------- specification: setup and collect

LinkPath == <<"/", "k">>

\* A host with a log directory of two files of 10 MB, the first one the newer,
\* and a symbolic link to the first one.
HostFiles ==
    (HostPath(LogDir) :> [DirStat EXCEPT !.entries = {<<LogNames[1]>>, <<LogNames[2]>>}])
    @@ (HostPath(LogFile(1)) :> RegStat(10 * MB, 2))
    @@ (HostPath(LogFile(2)) :> RegStat(10 * MB, 1))
    @@ (HostPath(LinkPath) :> [RegStat(10 * MB, 2) EXCEPT
                                    !.type = "link", !.target = Tail(LogFile(1))])

Init ==
    /\ \E sysroot \in {Root, AltRoot}, chroot \in {"auto", "always"} :
            commons = [Commons(sysroot, FALSE) EXCEPT !.chroot = chroot]
    /\ fs = HostFiles
    /\ Constructed
    /\ pc = "setup"

InSetup == pc = "setup" /\ last_call.n < MaxSetupCalls

Ls == <<"l", "s">>

\* The command lists a plugin passes: one command, the same command twice, and a
\* command whose name is that of a second copy of the first.
CmdLists == {<<Ls>>, <<Ls, Ls>>, <<Ls \o <<"_", "2">> >>}

\* The arguments add_cmd_output has by default.
DefaultOpts ==
    SoSCommand(<<>>, NoPath, NoPath, 300, TRUE, TRUE, NoPath, NoPath, FALSE, None, NoPath)

SetupForbid == InSetup /\ \E f \in ForbiddenArgs : add_forbidden_path(f)

SetupCopySpec ==
    /\ InSetup
    /\ \E copyspec \in {AllLogs, LogDir, LinkPath} :
            add_copy_spec(<<copyspec>>, None, TRUE, NoPred)

SetupCmd ==
    /\ InSetup
    /\ \E cmds \in CmdLists, chroot \in BOOLEAN :
            add_cmd_output(cmds, [DefaultOpts EXCEPT !.chroot = chroot], NoPred)

SetupString == InSetup /\ queue_string(<<"t">>, <<"n">>, NoPred)

Next ==
    \/ SetupForbid
    \/ SetupCopySpec
    \/ SetupCmd
    \/ SetupString
    \/ collect
    \/ collect_copy_specs
    \/ do_copy_path
    \/ copy_symlink
    \/ copy_dir
    \/ copy_file
    \/ copy_return
    \/ collect_cmd_output
    \/ get_command_output
    \/ get_cmd_output_now
    \/ collect_strings
    \/ add_string
    \/ SetTimeout

Spec == Init /\ [][Next]_vars

\* ------------------------------------------------------- claims: collect()

\* A unit of work (a path, a command, a string) is past its entry checks and about
\* to write what it collected.
Committed ==
    \/ pc \in {"copy_symlink", "copy_file", "add_string"}
    \/ pc = "get_cmd_output_now" /\ ~frame.result.none

\* The string artifacts of the archive.
StringArtifacts(arch) == {p \in DOMAIN arch : StartsWith(p, StringsDir)}

\* C1 as stated: from the moment _timeout_hit is set, no step of collect() appends
\* a record to copied_files or executed_commands or writes a string artifact.
C1_NothingAfterTimeout ==
    [][timeout_hit =>
        /\ copied_files' = copied_files
        /\ executed_commands' = executed_commands
        /\ StringArtifacts(archive') = StringArtifacts(archive)]_vars

\* C1, amended: once _timeout_hit is set no unit of work gets past its entry check
\* any more, and nothing is added to copied_files, executed_commands or the archive
\* but by the one unit that was already past its check when the flag was set, which
\* adds one record at most.
C1_OnlyTheUnitInFlightCompletes ==
    [][timeout_hit =>
        /\ ~Committed'
        /\ ~Committed => /\ copied_files' = copied_files
                         /\ executed_commands' = executed_commands
                         /\ archive' = archive
        /\ Len(copied_files') + Len(executed_commands')
                <= Len(copied_files) + Len(executed_commands) + 1]_vars

\* collect() ended on a flag set while the first of two commands was being
\* collected: the first is recorded, the second was never run.
C1_Witness ==
    /\ timeout_hit
    /\ pc = "done"
    /\ Len(collect_cmds) = 2
    /\ Len(executed_commands) = 1
    /\ copy_strings # <<>>
    /\ StringArtifacts(archive) = {}

\* path is F or lies below it.
IsUnder(path, F) == path = F \/ StartsWith(path, F \o <<"/">>)

\* C2: for every forbidden path F, whatever the order of add_forbidden_path and
\* add_copy_spec, neither F nor anything below it has a record in copied_files or
\* an entry in the archive: no file, placeholder or link at its place, no
\* '.tailed' string.
C2_ForbiddenNeverCollected ==
    \A F \in forbidden_paths : \A path \in DOMAIN fs :
        IsUnder(path, F) =>
            /\ \A i \in 1..Len(copied_files) : copied_files[i].srcpath # path
            /\ path \notin DOMAIN archive
            /\ strip_sysroot(path) \notin DOMAIN archive
            /\ StringDest(TailedName(path)) \notin DOMAIN archive

\* C3: collect() returns and never raises, wherever the supervisor sets the flag.
C3_CollectNeverRaises == pc # "raised"

\* get_command_output has returned to _get_cmd_output_now after running the
\* command at least once.
Returned == pc = "get_cmd_output_now" /\ dispatched # <<>>

NotRunnable(run) == run.status = 126 \/ run.status = 127

\* The first run was under a chroot other than '/', and the chroot option is not
\* 'always'.
RetryCase ==
    /\ Returned
    /\ NotRunnable(dispatched[1])
    /\ dispatched[1].chroot \notin {NoPath, Root}
    /\ commons.chroot # "always"

RanTwiceSecondInHost ==
    /\ Len(dispatched) = 2
    /\ dispatched[2].prog = dispatched[1].prog
    /\ dispatched[2].chroot = NoPath
    /\ ~frame.result.none
    /\ frame.result.status = dispatched[2].status

C7_NoRetryOtherwise ==
    (/\ Returned
     /\ NotRunnable(dispatched[1])
     /\ \/ commons.chroot = "always"
        \/ dispatched[1].chroot = Root
        \/ dispatched[1].chroot = NoPath)
    => /\ Len(dispatched) = 1
       /\ ~frame.result.none
       /\ frame.result.status = dispatched[1].status

C7_Witness ==
    /\ Returned
    /\ dispatched[1].status = 127
    /\ commons.chroot = "always"
    /\ dispatched[1].chroot = AltRoot
    /\ Len(dispatched) = 1
    /\ frame.result.status = 127

\* Where the archive holds the output of the i-th command collected.
CmdFile(i) == PathJoin(commons.cmddir, executed_commands[i].file)

\* The name the i-th command collected has when no earlier output took it
\* (commands queued with neither a suggested file name nor a subdir).
CmdName(i) ==
    PathJoin(PathJoin(commons.cmddir, PluginName),
             mangle_command(executed_commands[i].exe, commons.name_max))

Suffixed(name, m) == name \o <<"_">> \o Decimal(m)

TakenBefore(i) == {CmdFile(j) : j \in 1..(i - 1)}

RECURSIVE open_file(_, _, _)
\* archive.open_file(path).read(): the text archived at path, a link of the
\* archive being followed to what it names; a path the archive does not hold,
\* or a link that leads nowhere, raises IOError with the errno given.
open_file(arch, path, hops) ==
    IF path \notin DOMAIN arch THEN [errno |-> "ENOENT", text |-> <<>>]
    ELSE IF arch[path].kind # "link" THEN [errno |-> "", text |-> arch[path].text]
    ELSE IF hops = 0 THEN [errno |-> "ELOOP", text |-> <<>>]
    ELSE open_file(arch, normpath(PathJoin(Dirname(path), arch[path].target)), hops - 1)

\* Plugin._get_dest_for_srcpath: NoPath stands for None
get_dest_for_srcpath(srcpath) ==
    LET joined == IF use_sysroot THEN join_sysroot(srcpath) ELSE srcpath
        hits == {i \in 1..Len(copied_files) : copied_files[i].srcpath = joined}
    IN IF hits = {} THEN NoPath
       ELSE copied_files[CHOOSE i \in hits : \A j \in hits : i <= j].dstpath

\* A handler that reports a file it could not read as a failure.
FileSubErrorAsFailure(arch, errno) == [arch |-> arch, ret |-> None, errno |-> errno]

\* `except (OSError, IOError)` of do_file_sub
FileSubError(arch, errno) == [arch |-> arch, ret |-> 0, errno |-> errno]

\* Plugin.do_file_sub as a function of the archive
FileSub(arch, srcpath, regexp, subst) ==
    LET path == get_dest_for_srcpath(srcpath)
        read == open_file(arch, path, MaxLinkHops)
        r == re_subn(regexp, subst, read.text)
    IN IF path = NoPath THEN [arch |-> arch, ret |-> 0, errno |-> ""]
       ELSE IF read.errno # "" THEN FileSubError(arch, read.errno)
       ELSE IF r.n # 0
       THEN [arch |-> Put(arch, srcpath, Entry("string", NoPath, NoPath, 0, r.text)),
             ret |-> r.n, errno |-> ""]
       ELSE [arch |-> arch, ret |-> 0, errno |-> ""]

\* Plugin.do_file_sub
do_file_sub(srcpath, regexp, subst) ==
    LET r == FileSub(archive, srcpath, regexp, subst)
    IN /\ archive' = r.arch
       /\ ret' = r.ret
       /\ last_call' = [op |-> "do_file_sub", n |-> 0,
                        args |-> [srcpath |-> srcpath, regexp |-> regexp, subst |-> subst]]
       /\ frame' = [op |-> "do_file_sub", errno |-> r.errno]
       /\ UNCHANGED <<host, preds, forbidden_paths, copy_paths, copy_strings,
                      collect_cmds, ledgers, timeout_hit, dispatched, pc>>

\* pathexp.match(path) for a pathexp that is a literal text, or '.*' and a
\* literal text: the text is looked for at the start, or anywhere.
PathMatches(pathexp, path) ==
    IF pathexp.anywhere THEN Contains(path, pathexp.text) ELSE StartsWith(path, pathexp.text)

RECURSIVE PathSubLoop(_, _, _, _, _)
\* The loop `for file in file_list` of do_path_regex_sub from record i on.
PathSubLoop(arch, pathexp, regexp, subst, i) ==
    IF i > Len(copied_files) THEN arch
    ELSE IF ~PathMatches(pathexp, copied_files[i].srcpath)
    THEN PathSubLoop(arch, pathexp, regexp, subst, i + 1)
    ELSE PathSubLoop(FileSub(arch, copied_files[i].srcpath, regexp, subst).arch,
                     pathexp, regexp, subst, i + 1)

\* Plugin.do_path_regex_sub
do_path_regex_sub(pathexp, regexp, subst) ==
    /\ archive' = PathSubLoop(archive, pathexp, regexp, subst, 1)
    /\ ret' = None
    /\ last_call' = [op |-> "do_path_regex_sub", n |-> 0,
                     args |-> [pathexp |-> pathexp, regexp |-> regexp, subst |-> subst]]
    /\ frame' = [op |-> "do_path_regex_sub", errno |-> ""]
    /\ UNCHANGED <<host, preds, forbidden_paths, copy_paths, copy_strings,
                   collect_cmds, ledgers, timeout_hit, dispatched, pc>>

\* ------------------------------ specification: collect, then scrub the files

Secret == <<"x">>

TextA == <<"x", "y", "x">>

TextB == <<"y">>

\* A host whose two log files are short texts, the first holding the secret
\* twice, and a symbolic link to the first one.
TextFiles ==
    (HostPath(LogDir) :> [DirStat EXCEPT !.entries = {<<LogNames[1]>>, <<LogNames[2]>>}])
    @@ (HostPath(LogFile(1)) :> [RegStat(Len(TextA), 2) EXCEPT !.text = TextA])
    @@ (HostPath(LogFile(2)) :> [RegStat(Len(TextB), 1) EXCEPT !.text = TextB])
    @@ (HostPath(LinkPath) :> [RegStat(Len(TextA), 2) EXCEPT
                                    !.type = "link", !.target = Tail(LogFile(1))])

FileSubInit ==
    /\ \E sysroot \in {Root, AltRoot} : commons = Commons(sysroot, FALSE)
    /\ fs = TextFiles
    /\ Constructed
    /\ pc = "setup"

FileSetupForbid == InSetup /\ add_forbidden_path(LogFile(1))

FileSetupCopySpec ==
    /\ InSetup
    /\ \E copyspec \in {AllLogs, LinkPath} : add_copy_spec(<<copyspec>>, None, TRUE, NoPred)

\* The logical paths postproc() names.
ScrubPaths == {LogFile(1), LogFile(2), LinkPath}

\* The path expressions postproc() passes: '/v', and '.*/v'.
PathExps == {[anywhere |-> FALSE, text |-> LogDir], [anywhere |-> TRUE, text |-> LogDir]}

PostFileSub ==
    /\ pc = "done"
    /\ \E srcpath \in ScrubPaths : do_file_sub(srcpath, Secret, <<"z">>)

PostPathSub ==
    /\ pc = "done"
    /\ \E pathexp \in PathExps : do_path_regex_sub(pathexp, Secret, <<"z">>)

FileSubNext ==
    \/ FileSetupForbid
    \/ FileSetupCopySpec
    \/ collect
    \/ collect_copy_specs
    \/ do_copy_path
    \/ copy_symlink
    \/ copy_file
    \/ copy_return
    \/ collect_cmd_output
    \/ collect_strings
    \/ SetTimeout
    \/ PostFileSub
    \/ PostPathSub

SpecFileSub == FileSubInit /\ [][FileSubNext]_vars

\* ------------------------------------------- claims: substitution in files

\* C14: after do_path_regex_sub, the archived copy of every file recorded in
\* copied_files whose source path matches pathexp holds the pattern nowhere,
\* whether sysroot is '/' or another root.
C14_MatchingFilesRewritten ==
    last_call.op = "do_path_regex_sub" =>
        \A i \in 1..Len(copied_files) :
            (/\ copied_files[i].symlink = "no"
             /\ PathMatches(last_call.args.pathexp, copied_files[i].srcpath)
             /\ copied_files[i].dstpath \in DOMAIN archive)
            => ~Contains(archive[copied_files[i].dstpath].text, last_call.args.regexp)

\* The same, where sysroot is '/'.
PathSubWorksUnderHostRoot == use_sysroot \/ C14_MatchingFilesRewritten

\* The logical path has no record in copied_files.
NotRecorded(srcpath) ==
    \A i \in 1..Len(copied_files) : copied_files[i].srcpath # HostPath(srcpath)

\* C15: do_file_sub on a logical path that has no record in copied_files, or
\* whose archived copy cannot be found (ENOENT), returns 0, raises nothing and
\* leaves the archive as it was.
C15_MissingFileIsNoError ==
    [][(/\ last_call'.op = "do_file_sub"
        /\ \/ NotRecorded(last_call'.args.srcpath)
           \/ frame'.errno = "ENOENT")
       => /\ ret' = 0
          /\ pc' = pc
          /\ archive' = archive]_vars

\* do_file_sub was called on the link, which was collected while its target,
\* forbidden, was not.
C15_Witness ==
    /\ last_call.op = "do_file_sub"
    /\ last_call.args.srcpath = LinkPath
    /\ ~NotRecorded(LinkPath)
    /\ frame.errno = "ENOENT"
    /\ ret = 0

\* ------------------------------------------------------- gated setup calls

\* Plugin.set_predicate
set_predicate(pred) ==
    /\ predicate' = pred
    /\ last_call' = [op |-> "set_predicate", n |-> last_call.n + 1,
                     args |-> [pred |-> pred]]
    /\ ret' = None
    /\ UNCHANGED <<host, cmd_predicate, forbidden_paths, copy_paths, copy_strings,
                   collect_cmds, ledgers, timeout_hit, archive, dispatched, pc, frame>>

\* Plugin.set_cmd_predicate
set_cmd_predicate(pred) ==
    /\ cmd_predicate' = pred
    /\ last_call' = [op |-> "set_cmd_predicate", n |-> last_call.n + 1,
                     args |-> [pred |-> pred]]
    /\ ret' = None
    /\ UNCHANGED <<host, predicate, forbidden_paths, copy_paths, copy_strings,
                   collect_cmds, ledgers, timeout_hit, archive, dispatched, pc, frame>>

JournalCmd == <<"j", "o", "u", "r", "n", "a", "l", "c", "t", "l", " ", "-", "-", "n", "o", "-", "p", "a", "g", "e", "r", " ">>

UdevCmd == <<"u", "d", "e", "v", "a", "d", "m", " ", "i", "n", "f", "o">>

Max(a, b) == IF a > b THEN a ELSE b

\* The units, the list add_journal walks: a string stands for the list of itself
\* (isinstance(units, six.string_types)), None for no unit.
UnitList(units) == IF units.type = "str" THEN <<units.val>> ELSE units.val

RECURSIVE UnitOpts(_, _)
\* `for unit in units: journal_cmd += unit_opt % unit`, from the i-th unit on
UnitOpts(units, i) ==
    IF i > Len(units) THEN <<>>
    ELSE <<" ", "-", "-", "u", "n", "i", "t", " ">> \o units[i] \o UnitOpts(units, i + 1)

\* The boot index of the command line: "this" is the empty string, "last" is -1.
BootIndex(boot) ==
    IF boot = <<"t", "h", "i", "s">> THEN <<>>
    ELSE IF boot = <<"l", "a", "s", "t">> THEN <<"-", "1">>
    ELSE boot

\* The command line add_journal builds. Each `if x:` of the code is Python's
\* truth test: an absent string argument and an empty one (both <<>> here) are
\* false, and so are the numbers None and 0.
journal_cmd(o) ==
    JournalCmd
    \o UnitOpts(UnitList(o.units), 1)
    \o (IF o.identifier # <<>>
        THEN <<" ", "-", "-", "i", "d", "e", "n", "t", "i", "f", "i", "e", "r", " ">> \o o.identifier
        ELSE <<>>)
    \o (IF o.catalog THEN <<" ", "-", "-", "c", "a", "t", "a", "l", "o", "g">> ELSE <<>>)
    \o (IF o.allfields THEN <<" ", "-", "-", "a", "l", "l">> ELSE <<>>)
    \o (IF o.boot # <<>> THEN <<" ", "-", "-", "b", "o", "o", "t", " ">> \o BootIndex(o.boot) ELSE <<>>)
    \o (IF o.since # <<>> THEN <<" ", "-", "-", "s", "i", "n", "c", "e", " ">> \o o.since ELSE <<>>)
    \o (IF o.until # <<>> THEN <<" ", "-", "-", "u", "n", "t", "i", "l", " ">> \o o.until ELSE <<>>)
    \o (IF o.lines # None /\ o.lines # 0
        THEN <<" ", "-", "-", "l", "i", "n", "e", "s", " ">> \o Decimal(o.lines)
        ELSE <<>>)
    \o (IF o.output # <<>> THEN <<" ", "-", "-", "o", "u", "t", "p", "u", "t", " ">> \o o.output ELSE <<>>)

\* add_journal's arguments when the caller gives none.
NoJournalOpts ==
    [units |-> [type |-> "NoneType", val |-> <<>>], boot |-> NoPath, since |-> NoPath,
     until |-> NoPath, lines |-> None, allfields |-> FALSE, output |-> NoPath,
     identifier |-> NoPath, catalog |-> FALSE]

\* Plugin.add_journal: the command is queued with no timeout of its own and a
\* size limit of at least 100 MB, none when all logs are asked for.
add_journal(opts, sizelimit, pred) ==
    LET asked == IF sizelimit = None \/ sizelimit = 0 THEN commons.log_size ELSE sizelimit
        log_size == IF commons.all_logs THEN 0 ELSE Max(asked, 100)
    IN /\ collect_cmds' = add_one_cmd_output(collect_cmds,
                                [DefaultOpts EXCEPT !.cmd = journal_cmd(opts), !.timeout = None,
                                                    !.sizelimit = log_size], pred)
       /\ last_call' = [op |-> "add_journal", n |-> last_call.n + 1,
                        args |-> [opts |-> opts, sizelimit |-> sizelimit, pred |-> pred]]
       /\ ret' = None
       /\ UNCHANGED <<host, preds, forbidden_paths, copy_paths, copy_strings, ledgers,
                      timeout_hit, archive, dispatched, pc, frame>>

\* Plugin.add_udev_info for one device
add_udev_info(device, attrs) ==
    LET udev_cmd == IF attrs THEN UdevCmd \o <<" ", "-", "a">> ELSE UdevCmd
    IN /\ collect_cmds' = add_one_cmd_output(collect_cmds,
                                [DefaultOpts EXCEPT !.cmd = udev_cmd \o <<" ">> \o device],
                                NoPred)
       /\ last_call' = [op |-> "add_udev_info", n |-> last_call.n + 1,
                        args |-> [device |-> device, attrs |-> attrs, pred |-> NoPred]]
       /\ ret' = None
       /\ UNCHANGED <<host, preds, forbidden_paths, copy_paths, copy_strings, ledgers,
                      timeout_hit, archive, dispatched, pc, frame>>

\* Plugin.get_cmd_output_now: when the predicate allows it the command is run at
\* once, by _get_cmd_output_now, with neither a suggested name nor a root link.
call_get_cmd_output_now(exe, opts, pred) ==
    /\ last_call' = [op |-> "get_cmd_output_now", n |-> last_call.n + 1,
                     args |-> [exe |-> exe, opts |-> opts, pred |-> pred]]
    /\ IF ~test_predicate(TRUE, pred) \/ CmdCancelled
       THEN UNCHANGED <<pc, frame, dispatched>>
       ELSE /\ pc' = "get_command_output"
            /\ frame' = [Collecting EXCEPT
                            !.op = "get_cmd_output_now", !.todo = {}, !.back = "setup",
                            !.soscmd = [opts EXCEPT !.cmd = exe,
                                                    !.suggest_filename = NoPath,
                                                    !.root_symlink = NoPath,
                                                    !.subdir = NoPath],
                            !.call = [prog |-> exe, timeout |-> opts.timeout,
                                      stderr |-> opts.stderr, chroot |-> opts.chroot,
                                      runat |-> opts.runat, env |-> opts.env,
                                      binary |-> opts.binary,
                                      sizelimit |-> opts.sizelimit, nested |-> FALSE]]
            /\ dispatched' = <<>>
    /\ ret' = None
    /\ UNCHANGED <<host, preds, forbidden_paths, copy_paths, copy_strings, collect_cmds,
                   ledgers, timeout_hit, archive>>

\* ------------------------------------------------ specification: predicates

\* The predicates a plugin makes: the null one, a dry run, one on the kernel
\* module k, one on the service s.
PredKinds == {"null", "dry", "kmod", "service"}

MakePred(kind) ==
    SoSPredicate(kind = "dry", IF kind = "kmod" THEN {"k"} ELSE {},
                 IF kind = "service" THEN {"s"} ELSE {})

\* What set_predicate and set_cmd_predicate are given: a predicate, or None.
SetArgs == {NoPred} \cup {MakePred(kind) : kind \in PredKinds}

\* What the pred argument of a gated call is: None, or a predicate.
CallArgs == {NoPred, MakePred("dry"), MakePred("kmod")}

\* A host under either interpreter, with or without --dry-run, where nothing is
\* loaded, or the module k is, or the service s runs.
PredInit ==
    /\ \E py3 \in BOOLEAN, dry_run \in BOOLEAN, up \in {"none", "kmod", "service"} :
            commons = [Commons(Root, FALSE) EXCEPT
                            !.py3 = py3, !.dry_run = dry_run,
                            !.loaded_kmods = IF up = "kmod" THEN {"k"} ELSE {},
                            !.running_services = IF up = "service" THEN {"s"} ELSE {}]
    /\ fs = HostFiles
    /\ Constructed
    /\ pc = "setup"

PredSet == InSetup /\ \E pred \in SetArgs : set_predicate(pred)

PredSetCmd == InSetup /\ \E pred \in SetArgs : set_cmd_predicate(pred)

PredCopySpec ==
    /\ InSetup
    /\ \E copyspec \in {LogFile(1), AllLogs}, pred \in CallArgs :
            add_copy_spec(<<copyspec>>, None, TRUE, pred)

PredCmd == InSetup /\ \E pred \in CallArgs : add_cmd_output(<<Ls>>, DefaultOpts, pred)

PredJournal == InSetup /\ \E pred \in CallArgs : add_journal(NoJournalOpts, None, pred)

PredUdev == InSetup /\ add_udev_info(<<"d">>, FALSE)

PredString == InSetup /\ \E pred \in CallArgs : queue_string(<<"t">>, <<"n">>, pred)

PredCmdNow ==
    InSetup /\ \E pred \in CallArgs : call_get_cmd_output_now(Ls, DefaultOpts, pred)

PredNext ==
    \/ PredSet
    \/ PredSetCmd
    \/ PredCopySpec
    \/ PredCmd
    \/ PredJournal
    \/ PredUdev
    \/ PredString
    \/ PredCmdNow
    \/ get_command_output
    \/ get_cmd_output_now

SpecPred == PredInit /\ [][PredNext]_vars

\* ------------------------------------------------------ claims: predicates

\* What evaluating a predicate is to yield: true for the null predicate, else
\* (a listed module is loaded or a listed service runs) and not a dry run.
Expected(p) ==
    IF p.kmods = {} /\ p.services = {} /\ ~p.dry_run THEN TRUE
    ELSE /\ (p.kmods \cap commons.loaded_kmods # {}
             \/ p.services \cap commons.running_services # {})
         /\ ~p.dry_run

\* C16: evaluating a predicate yields true when it is null, and otherwise (some
\* listed module is loaded or some listed service runs) and not dry_run; here
\* for every predicate the plugin holds or was handed in its last call.
C16_PredicateEvaluation ==
    \A p \in {predicate, cmd_predicate}
             \cup (IF last_call.n > 0 /\ "pred" \in DOMAIN last_call.args
                   THEN {last_call.args.pred} ELSE {}) :
        p.isset => (truth(p) <=> Expected(p))

\* The same evaluation under Python 2, where bool() asks __nonzero__.
PredicateEvaluationPy2 == ~commons.py3 => C16_PredicateEvaluation

\* The calls a predicate gates, and those of them that collect commands.
GatedOps ==
    {"add_copy_spec", "add_string_as_file", "add_cmd_output", "add_journal",
     "add_udev_info", "get_cmd_output_now"}

CommandOps == {"add_cmd_output", "add_journal", "add_udev_info", "get_cmd_output_now"}

\* The step is a gated call made by setup().
GatedStep == last_call'.n = last_call.n + 1 /\ last_call'.op \in GatedOps

\* The predicate that is to gate the call of the step: the one passed, else for a
\* command the command predicate when set, else the plugin's.
Applicable ==
    LET passed == last_call'.args.pred
    IN IF passed.isset THEN passed
       ELSE IF last_call'.op \in CommandOps /\ cmd_predicate.isset THEN cmd_predicate
       ELSE predicate

\* What the claim says a skipped call leaves alone.
LeftAlone ==
    LET op == last_call'.op
    IN /\ op = "add_copy_spec" => UNCHANGED <<copy_paths, copy_strings, archive>>
       /\ op \in {"add_cmd_output", "add_journal", "add_udev_info"} => UNCHANGED collect_cmds
       /\ op = "add_string_as_file" => UNCHANGED copy_strings
       /\ op = "get_cmd_output_now" =>
                /\ pc' = "setup"
                /\ UNCHANGED <<dispatched, archive, executed_commands>>

\* C17: a gated call whose applicable predicate evaluates false leaves its queue
\* alone (add_copy_spec: the path set, the strings and the archive; the command
\* calls: the command queue; add_string_as_file: the strings) and
\* get_cmd_output_now runs nothing, writes nothing and records nothing.
C17_FalsePredicateSkipsTheCall ==
    [][GatedStep /\ Applicable.isset /\ ~Expected(Applicable) => LeftAlone]_vars

\* The same under Python 2.
FalsePredicateSkipsTheCallPy2 ==
    [][~commons.py3 /\ GatedStep /\ Applicable.isset /\ ~Expected(Applicable)
            => LeftAlone]_vars

\* The call of the step went ahead: the path was taken, the command or the
\* string queued, the command started.
WentAhead ==
    LET op == last_call'.op
    IN /\ op = "add_copy_spec" => HostPath(LogFile(1)) \in copy_paths'
       /\ op \in {"add_cmd_output", "add_journal", "add_udev_info"} =>
                Len(collect_cmds') = Len(collect_cmds) + 1
       /\ op = "add_string_as_file" => Len(copy_strings') = Len(copy_strings) + 1
       /\ op = "get_cmd_output_now" => pc' = "get_command_output"

\* The call of the step was skipped.
WasSkipped ==
    /\ UNCHANGED <<copy_paths, copy_strings, collect_cmds, archive, ledgers, dispatched>>
    /\ pc' = "setup"

CopyPhase ==
    pc \in {"collect_copy_specs", "do_copy_path", "copy_symlink", "copy_dir",
            "copy_file", "copy_return"}

CmdPhase == pc \in {"collect_cmd_output", "get_command_output", "get_cmd_output_now"}

StringPhase == pc \in {"collect_strings", "add_string"}

\* While paths are copied no command has run and no string is written; while
\* commands run no string is written; the records of the commands are those of
\* the head of the queue, in its order.
OrderedSoFar ==
    /\ CopyPhase => /\ executed_commands = <<>> /\ dispatched = <<>>
                    /\ StringArtifacts(archive) = {}
    /\ CmdPhase => StringArtifacts(archive) = {}
    /\ Len(executed_commands) <= Len(collect_cmds)
    /\ \A i \in 1..Len(executed_commands) : executed_commands[i].exe = collect_cmds[i].cmd

\* Paths are copied only by the first part of collect(), commands run and are
\* recorded only by the second, strings are written only by the third.
EachInItsPhase ==
    /\ copied_files' # copied_files => CopyPhase
    /\ (executed_commands' # executed_commands \/ Len(dispatched') > Len(dispatched))
            => CmdPhase
    /\ StringArtifacts(archive') # StringArtifacts(archive) => StringPhase

\* C19: within one collect() every path copy comes before every command run,
\* every command run before every write of a queued string, and the commands are
\* run and recorded in the order of the queue.
C19_PathsThenCommandsThenStrings == []OrderedSoFar /\ [][EachInItsPhase]_vars

\* collect() has finished unhurried: it copied a path, ran the two commands of
\* the queue and wrote a string.
C19_Witness ==
    /\ pc = "done"
    /\ ~timeout_hit
    /\ copied_files # <<>>
    /\ Len(collect_cmds) = 2 /\ Len(executed_commands) = 2
    /\ executed_commands[1].file # executed_commands[2].file
    /\ StringArtifacts(archive) # {}

\* --------------------------------------------- specification: symbolic links

LinkStat(target, statok) ==
    [DirStat EXCEPT !.type = "link", !.size = 1, !.target = target, !.statok = statok]

\* A host with a link to itself (/s), two links to each other (/p, /q), a link to
\* the directory above its own (/d/e/u), two links (/x, /b/c/l) of which /x
\* names the other through the directory link /a, and a link (/b/c/m) to the
\* directory /b/y, whose target read through /a is, as a text, the file /y
\* (/a/m is the path under which a glob finds that same link).
LinkFiles ==
    (<<"/", "s">> :> LinkStat(<<"s">>, FALSE))
    @@ (<<"/", "p">> :> LinkStat(<<"q">>, FALSE))
    @@ (<<"/", "q">> :> LinkStat(<<"p">>, FALSE))
    @@ (<<"/", "d">> :> [DirStat EXCEPT !.entries = {<<"e">>, <<"f">>}])
    @@ (<<"/", "d", "/", "e">> :> [DirStat EXCEPT !.entries = {<<"u">>}])
    @@ (<<"/", "d", "/", "e", "/", "u">> :> LinkStat(<<".", ".">>, TRUE))
    @@ (<<"/", "d", "/", "f">> :> RegStat(1, 1))
    @@ (<<"/", "a">> :> LinkStat(<<"b", "/", "c">>, TRUE))
    @@ (<<"/", "b">> :> [DirStat EXCEPT !.entries = {<<"c">>, <<"x">>, <<"y">>}])
    @@ (<<"/", "b", "/", "c">> :> [DirStat EXCEPT !.entries = {<<"l">>, <<"m">>}])
    @@ (<<"/", "b", "/", "c", "/", "m">> :> LinkStat(<<".", ".", "/", "y">>, TRUE))
    @@ (<<"/", "a", "/", "m">> :> LinkStat(<<".", ".", "/", "y">>, TRUE))
    @@ (<<"/", "b", "/", "y">> :> [DirStat EXCEPT !.entries = {<<"z">>}])
    @@ (<<"/", "b", "/", "y", "/", "z">> :> RegStat(1, 1))
    @@ (<<"/", "y">> :> RegStat(1, 1))
    @@ (<<"/", "b", "/", "c", "/", "l">> :> LinkStat(<<".", ".", "/", "x">>, TRUE))
    @@ (<<"/", "b", "/", "x">> :> RegStat(1, 1))
    @@ (<<"/", "x">> :> LinkStat(<<"a", "/", "l">>, TRUE))

\* The paths a plugin asks for.
LinkCopySpecs ==
    {<<"/", "s">>, <<"/", "p">>, <<"/", "d">>, <<"/", "a">>, <<"/", "b">>, <<"/", "x">>,
     <<"/", "a", "/", "m">>}

LinkInit ==
    /\ commons = Commons(Root, FALSE)
    /\ fs = LinkFiles
    /\ Constructed
    /\ pc = "setup"

LinkSetupCopySpec ==
    InSetup /\ \E copyspec \in LinkCopySpecs : add_copy_spec(<<copyspec>>, None, TRUE, NoPred)

LinkNext ==
    \/ LinkSetupCopySpec
    \/ collect
    \/ collect_copy_specs
    \/ do_copy_path
    \/ copy_symlink
    \/ copy_dir
    \/ copy_file
    \/ copy_return
    \/ collect_cmd_output
    \/ collect_strings

SpecLinks == LinkInit /\ [][LinkNext]_vars

\* ------------------------------------------------- claims: symbolic links

\* C20: from whatever path, on whatever finite file system (links to themselves,
\* to each other, to a directory above them), _do_copy_path comes to an end: the
\* calls of _copy_symlink and _copy_dir within one another are bounded, and no
\* recursion is left to the interpreter's limit to stop.
C20_CopyPathTerminates == ~(pc = "raised" /\ frame.exc = "RecursionError")

\* The links the claim lists are no trouble: the only calls that recur are those
\* for /x and for the link it names through /a.
OnlyTheLinkThroughADirectoryLinkRecurs ==
    pc = "raised" => frame.cur \in {<<"/", "x">>, <<"/", "a", "/", "l">>}

\* collect() comes to its end for the link to itself, the two links to each other
\* and the link to the directory above.
ListedLinksCollected ==
    /\ pc = "done"
    /\ copy_paths = {<<"/", "s">>, <<"/", "d">>}
    /\ Len(copied_files) = 2

\* The link at srcpath names itself: its target, joined to its directory and
\* normalised, is srcpath.
PointsToItself(srcpath) ==
    /\ lstat(srcpath).type = "link"
    /\ normpath(PathJoin(Dirname(srcpath), lstat(srcpath).target)) = srcpath

\* C21: copying a link whose normalised absolute target is its own path calls
\* _do_copy_path for nothing more: it returns, having written one link entry in
\* the archive and at most one record, for that path, in copied_files.
C21_SelfLinkCopiedOnce ==
    [][pc = "copy_symlink" /\ PointsToItself(frame.cur) =>
            LET srcpath == frame.cur
            IN /\ pc' = "copy_return" /\ frame' = frame
               /\ DOMAIN archive' = DOMAIN archive \cup {srcpath}
               /\ archive'[srcpath].kind = "link"
               /\ \A q \in DOMAIN archive : q # srcpath => archive'[q] = archive[q]
               /\ \/ copied_files' = copied_files
                  \/ /\ Len(copied_files') = Len(copied_files) + 1
                     /\ SubSeq(copied_files', 1, Len(copied_files)) = copied_files
                     /\ copied_files'[Len(copied_files')].srcpath = srcpath]_vars

\* collect() is over and the link /s, which names itself, has its link entry and
\* its one record.
C21_Witness ==
    /\ pc = "done"
    /\ <<"/", "s">> \in DOMAIN archive /\ archive[<<"/", "s">>].kind = "link"
    /\ Cardinality({k \in 1..Len(copied_files) :
                        copied_files[k].srcpath = <<"/", "s">>}) = 1

\* ------------------------------------------------- claims: command records

\* The step is one of collect(): get_command_output has returned to
\* _get_cmd_output_now for a command that was run, one that collect() dispatched
\* while the flag was unset.
DispatchedReturns ==
    /\ pc = "get_cmd_output_now" /\ frame.op = "collect" /\ dispatched # <<>>
    /\ timeout_hit' = timeout_hit

\* The command at hand gets its one record and collect() goes on to the next
\* command of the queue.
RecordedAndOn ==
    /\ Len(executed_commands') = Len(executed_commands) + 1
    /\ SubSeq(executed_commands', 1, Len(executed_commands)) = executed_commands
    /\ executed_commands'[Len(executed_commands')].exe = frame.soscmd.cmd
    /\ pc' = "collect_cmd_output"
    /\ frame'.i = frame.i + 1

\* C22: every command collect() dispatched while the flag was unset gets exactly
\* one record, whatever its exit status (0, 124, 126, 127) and also after a
\* second run in the host root, and collect() goes on to the next command.
C22_EveryDispatchedCommandRecorded == [][DispatchedReturns => RecordedAndOn]_vars

\* The same for the commands during whose runs the flag stayed unset.
DispatchedCommandRecordedUnlessTimedOut ==
    [][DispatchedReturns /\ ~timeout_hit => RecordedAndOn]_vars

\* The step appends a record to executed_commands.
Records == Len(executed_commands') = Len(executed_commands) + 1

\* C23: the file field of a record of executed_commands is null exactly when no
\* output was archived for its command, which is the case of a command that was
\* not found or not runnable (a command skipped for the flag has no record);
\* here at the step that writes the record.
C23_FileNullIffNothingArchived ==
    [][Records =>
            (executed_commands'[Len(executed_commands')].file = NoPath
                <=> NotRunnable(dispatched[Len(dispatched)]))]_vars

\* What the code does instead: every record names a file, and that file is in the
\* archive.
EveryRecordNamesAnArchivedFile ==
    \A k \in 1..Len(executed_commands) :
        /\ executed_commands[k].file # NoPath
        /\ PathExists(archive, PathJoin(commons.cmddir, executed_commands[k].file))

\* ------------------------------------------- claims: add_copy_spec, no limit

\* The files the patterns of the last add_copy_spec call match.
Matched ==
    UNION {expand_copy_spec(IF use_sysroot
                            THEN join_sysroot(last_call.args.copyspecs[i])
                            ELSE last_call.args.copyspecs[i]) :
           i \in 1..Len(last_call.args.copyspecs)}

\* The last call was add_copy_spec and no limit was in force: the limit asked for
\* or configured was 0, or all logs were asked for.
UnlimitedCall ==
    /\ last_call.op = "add_copy_spec"
    /\ \/ commons.all_logs
       \/ last_call.args.sizelimit = 0
       \/ last_call.args.sizelimit = None /\ commons.log_size = 0

\* C24: under an effective limit of 0 or None (none configured, or all_logs,
\* which overrides the sizelimit argument) add_copy_spec adds every matched file
\* that is not forbidden, whatever the sizes, and makes no tail string and no link.
C24_NoLimitTakesEveryFile ==
    UnlimitedCall =>
        /\ copy_paths = {f \in Matched : ~is_forbidden_path(f)}
        /\ copy_strings = <<>>
        /\ DOMAIN archive = {}

\* All logs were asked for and the call named a limit of 15 MB: the three files of
\* the directory, 30 MB together, are all taken.
C24_Witness ==
    /\ UnlimitedCall
    /\ commons.all_logs /\ last_call.args.sizelimit = 15
    /\ Cardinality(copy_paths) = 3
    /\ SumSizes(copy_paths) = 30 * MB

\* ------------------------------------------ specification: failing units

FaultyDir == LogDir \o <<"/", "w">>

\* A host whose log directory holds a file and a directory that os.listdir cannot
\* list: it fails with errno.
FaultyFiles(errno) ==
    (LogDir :> [DirStat EXCEPT !.entries = {<<LogNames[1]>>, <<"w">>}])
    @@ (LogFile(1) :> RegStat(MB, 1))
    @@ (FaultyDir :> [DirStat EXCEPT !.listdir = errno])

FaultInit ==
    /\ commons = Commons(Root, FALSE)
    /\ \E errno \in {"EIO", "ELOOP"} : fs = FaultyFiles(errno)
    /\ Constructed
    /\ pc = "setup"

FaultSetupCopySpec ==
    /\ InSetup
    /\ \E copyspec \in {LogDir, LogFile(1), FaultyDir} :
            add_copy_spec(<<copyspec>>, None, TRUE, NoPred)

FaultSetupCmd == InSetup /\ add_cmd_output(<<Ls>>, DefaultOpts, NoPred)

FaultSetupString == InSetup /\ queue_string(<<"t">>, <<"n">>, NoPred)

FaultNext ==
    \/ FaultSetupCopySpec
    \/ FaultSetupCmd
    \/ FaultSetupString
    \/ collect
    \/ collect_copy_specs
    \/ do_copy_path
    \/ copy_dir
    \/ copy_file
    \/ copy_return
    \/ collect_cmd_output
    \/ get_command_output
    \/ get_cmd_output_now
    \/ collect_strings
    \/ add_string

SpecFaults == FaultInit /\ [][FaultNext]_vars

\* --------------------------------------------------- claims: failing units

\* C25: nothing raised while one path, command or string is processed (an OSError
\* other than ELOOP from listing a directory among them) leaves collect(): the
\* unit is skipped and collect() goes on with the rest of its queues.
C25_FailingUnitIsSkipped == ~(pc = "raised" /\ frame.exc = "OSError")

\* A directory that cannot be listed for ELOOP is skipped, and collect() comes to
\* its end with the command run and the string written.
LoopingDirIsSkipped ==
    fs[FaultyDir].listdir = "ELOOP" => pc # "raised"

\* ----------------------------------------------------- claims: exactly once

\* C26: each path of copy_paths goes through _do_copy_path exactly once and each
\* queued command is executed exactly once: no path is copied a second time, and
\* no command has a second record.
C26_EachUnitProcessedOnce ==
    /\ \A i, j \in 1..Len(copied_files) :
            i # j => copied_files[i].srcpath # copied_files[j].srcpath
    /\ Len(executed_commands) <= Len(collect_cmds)

\* What does hold: adding a path again leaves copy_paths as it was, the loop of
\* _collect_copy_specs takes each path of the set once, and the loop of
\* _collect_cmd_output leaves one record per queued command when it is not cut
\* short.
EachQueueWalkedOnce ==
    /\ pc \notin {"setup", "postproc"} /\ frame.op = "collect" => frame.todo \subseteq copy_paths
    /\ Len(executed_commands) <= Len(collect_cmds)
    /\ pc = "done" /\ ~timeout_hit => Len(executed_commands) = Len(collect_cmds)

\* ---------------------------------------------- specification: setup calls

SetupInit ==
    /\ \E sysroot \in {Root, AltRoot} : commons = Commons(sysroot, FALSE)
    /\ fs = HostFiles
    /\ Constructed
    /\ pc = "setup"

OnlyForbid == InSetup /\ \E f \in ForbiddenArgs : add_forbidden_path(f)

OnlyCopySpec ==
    /\ InSetup
    /\ \E copyspec \in {AllLogs, LogFile(1)}, tailit \in BOOLEAN :
            add_copy_spec(<<copyspec>>, None, tailit, NoPred)

OnlyCmd == InSetup /\ add_cmd_output(<<Ls>>, DefaultOpts, NoPred)

OnlyJournal == InSetup /\ \E sizelimit \in {None, 200} : add_journal(NoJournalOpts, sizelimit, NoPred)

OnlyUdev == InSetup /\ \E attrs \in BOOLEAN : add_udev_info(<<"d">>, attrs)

OnlyString == InSetup /\ queue_string(<<"t">>, <<"n">>, NoPred)

SetupNext ==
    \/ OnlyForbid
    \/ OnlyCopySpec
    \/ OnlyCmd
    \/ OnlyJournal
    \/ OnlyUdev
    \/ OnlyString

SpecSetup == SetupInit /\ [][SetupNext]_vars

\* ------------------------------------------------------ claims: setup calls

\* The step is a call made by setup().
SetupStep == pc = "setup" /\ last_call'.n = last_call.n + 1

\* The files whose content the step read: those the strings it queued were
\* taken from.
ReadNow ==
    {copy_strings'[k].content.src : k \in (Len(copy_strings) + 1)..Len(copy_strings')}
        \ {NoPath}

IsPrefix(a, b) == Len(a) <= Len(b) /\ SubSeq(b, 1, Len(a)) = a

\* C28: both ledgers are append-only: over every step copied_files and
\* executed_commands of the earlier state are prefixes of those of the later
\* state; no record is removed, moved or changed.
C28_LedgersAppendOnly ==
    [][/\ IsPrefix(copied_files, copied_files')
       /\ IsPrefix(executed_commands, executed_commands')]_vars

\* collect() is over with two records in each ledger.
C28_Witness ==
    /\ pc = "done"
    /\ Len(copied_files) >= 2
    /\ Len(executed_commands) >= 2

\* ------------------------------------------------------ claims: the flag

\* C29: the flag is one-way. No step of the plugin (setup calls, collect(), the
\* runs of a command and the retry) changes _timeout_hit: only the supervisor
\* does, and only from false to true, so once true it stays true; and
\* check_timeout() returns the flag as it is.
C29_FlagIsOneWay ==
    /\ [](check_timeout = timeout_hit)
    /\ [][timeout_hit => timeout_hit']_vars
    /\ [][timeout_hit' # timeout_hit =>
            UNCHANGED <<host, preds, forbidden_paths, copy_paths, copy_strings,
                        collect_cmds, ledgers, archive, dispatched, pc, frame,
                        last_call, ret>>]_vars

\* The flag was set while collect() was copying, and collect() has gone on to its
\* end with the flag still set.
C29_Witness ==
    /\ pc = "done"
    /\ timeout_hit /\ check_timeout
    /\ copy_strings # <<>> /\ StringArtifacts(archive) = {}

\* ------------------------------------------ specification: command deadlines

DeadlineInit ==
    /\ commons = Commons(Root, FALSE)
    /\ fs = HostFiles
    /\ Constructed
    /\ pc = "setup"

\* add_cmd_output with its default timeout, or with one of 10 seconds.
DeadlineCmd ==
    /\ InSetup
    /\ \E timeout \in {300, 10} :
            add_cmd_output(<<Ls>>, [DefaultOpts EXCEPT !.timeout = timeout], NoPred)

DeadlineJournal == InSetup /\ \E sizelimit \in {None, 200} : add_journal(NoJournalOpts, sizelimit, NoPred)

DeadlineUdev == InSetup /\ \E attrs \in BOOLEAN : add_udev_info(<<"d">>, attrs)

DeadlineNext ==
    \/ DeadlineCmd
    \/ DeadlineJournal
    \/ DeadlineUdev
    \/ collect
    \/ collect_copy_specs
    \/ collect_cmd_output
    \/ get_command_output
    \/ get_cmd_output_now
    \/ collect_strings

SpecDeadline == DeadlineInit /\ [][DeadlineNext]_vars

\* ---------------------------------------------------- claims: deadlines

\* C30: every command queued by add_cmd_output, add_journal or add_udev_info is
\* run with a deadline: the timeout handed to the executor is a number of seconds
\* greater than 0, never None.
C30_EveryRunHasADeadline ==
    \A k \in 1..Len(dispatched) :
        dispatched[k].timeout # None /\ dispatched[k].timeout > 0

\* The commands of add_cmd_output and add_udev_info do run under a deadline.
RunsButTheJournalHaveADeadline ==
    \A k \in 1..Len(dispatched) :
        dispatched[k].timeout = None => StartsWith(dispatched[k].prog, JournalCmd)

\* ------------------------------------------- specification: journal commands

\* The units a plugin names: none, one by its name, one with an empty name, a
\* list of two, an empty list.
UnitArgs ==
    {[type |-> "NoneType", val |-> <<>>], [type |-> "str", val |-> <<"u">>],
     [type |-> "str", val |-> <<>>], [type |-> "list", val |-> << <<"u">>, <<"v">> >>],
     [type |-> "list", val |-> <<>>]}

\* A string argument is left out (<<>>) or given.
BootArgs == {NoPath, <<"t", "h", "i", "s">>, <<"l", "a", "s", "t">>, <<"0">>}

JournalArgs ==
    [units : UnitArgs, boot : BootArgs, since : {NoPath, <<"s">>}, until : {NoPath, <<"t">>},
     lines : {None, 0, 12}, allfields : BOOLEAN, output : {NoPath, <<"o">>},
     identifier : {NoPath, <<"i">>}, catalog : BOOLEAN]

JournalInit ==
    /\ commons = Commons(Root, FALSE)
    /\ fs = HostFiles
    /\ Constructed
    /\ pc = "setup"

\* setup() makes one add_journal call.
JournalCall ==
    /\ pc = "setup" /\ last_call.n = 0
    /\ \E opts \in JournalArgs : add_journal(opts, None, NoPred)

JournalNext == JournalCall

SpecJournal == JournalInit /\ [][JournalNext]_vars

\* ------------------------------------------------ claims: journal commands

\* " --name value", or " --name" for an option with no value
Option(name, value) == <<" ", "-", "-">> \o name \o value

RECURSIVE Options(_, _)
\* The options of a list, one after the other.
Options(list, i) == IF i > Len(list) THEN <<>> ELSE list[i] \o Options(list, i + 1)

\* The options a call asks for, in the order of the command line. An option is
\* asked for when its argument is given: a string, a number, a true flag.
Requested(o) ==
    [k \in 1..Len(UnitList(o.units)) |->
            Option(<<"u", "n", "i", "t", " ">>, UnitList(o.units)[k])]
    \o (IF o.identifier # NoPath
        THEN <<Option(<<"i", "d", "e", "n", "t", "i", "f", "i", "e", "r", " ">>, o.identifier)>>
        ELSE <<>>)
    \o (IF o.catalog THEN <<Option(<<"c", "a", "t", "a", "l", "o", "g">>, <<>>)>> ELSE <<>>)
    \o (IF o.allfields THEN <<Option(<<"a", "l", "l">>, <<>>)>> ELSE <<>>)
    \o (IF o.boot = NoPath THEN <<>>
        ELSE IF o.boot = <<"t", "h", "i", "s">> THEN <<Option(<<"b", "o", "o", "t", " ">>, <<>>)>>
        ELSE IF o.boot = <<"l", "a", "s", "t">> THEN <<Option(<<"b", "o", "o", "t", " ">>, <<"-", "1">>)>>
        ELSE <<Option(<<"b", "o", "o", "t", " ">>, o.boot)>>)
    \o (IF o.since # NoPath THEN <<Option(<<"s", "i", "n", "c", "e", " ">>, o.since)>> ELSE <<>>)
    \o (IF o.until # NoPath THEN <<Option(<<"u", "n", "t", "i", "l", " ">>, o.until)>> ELSE <<>>)
    \o (IF o.lines # None
        THEN <<Option(<<"l", "i", "n", "e", "s", " ">>, Decimal(o.lines))>>
        ELSE <<>>)
    \o (IF o.output # NoPath THEN <<Option(<<"o", "u", "t", "p", "u", "t", " ">>, o.output)>> ELSE <<>>)

\* The command an add_journal call has just queued is the one asked for.
QueuedAsAsked ==
    /\ Len(collect_cmds) = 1
    /\ LET o == last_call.args.opts
       IN collect_cmds[1].cmd = JournalCmd \o Options(Requested(o), 1)

\* C31: for every combination of its arguments add_journal queues
\* 'journalctl --no-pager ' followed by the options asked for, in the order
\* --unit (one per unit, as given), --identifier, --catalog, --all, --boot (of
\* nothing for 'this', of -1 for 'last'), --since, --until, --lines, --output, and
\* by no other option.
C31_JournalOptionsInOrder == last_call.op = "add_journal" => QueuedAsAsked

\* It does whenever the number of lines asked for is not 0.
JournalOptionsInOrderButLinesZero ==
    last_call.op = "add_journal" /\ last_call.args.opts.lines # 0 => QueuedAsAsked

\* A call with every option reaches the queue.
EveryJournalOptionQueued ==
    ~(/\ last_call.op = "add_journal"
      /\ LET o == last_call.args.opts
         IN /\ Len(UnitList(o.units)) = 2 /\ o.catalog /\ o.allfields /\ o.lines = 12
            /\ o.boot = <<"l", "a", "s", "t">>
            /\ Len(Requested(o)) = 10
      /\ QueuedAsAsked)

\* ------------------------------------------------ claims: directory links

\* C32: _copy_symlink always puts the link itself in the archive, at the path of
\* the link; and when what the link leads to is a directory it does not go into
\* it: the call returns, or goes on to a path that is neither that directory nor
\* below it, and opens no directory listing.
C32_DirectoryLinkNotDescended ==
    [][pc = "copy_symlink" /\ timeout_hit' = timeout_hit =>
            LET srcpath == frame.cur
                dstpath == strip_sysroot(srcpath)
            IN /\ dstpath \in DOMAIN archive' /\ archive'[dstpath].kind = "link"
               /\ isdir(srcpath) =>
                    /\ frame'.stack = frame.stack
                    /\ pc' = "do_copy_path" => ~IsUnder(frame'.cur, realpath(srcpath))]_vars

\* collect() is over for the link /a to the directory /b/c: the link is in the
\* archive, nothing of /b/c is, and no record was made.
C32_Witness ==
    /\ pc = "done"
    /\ copy_paths = {<<"/", "a">>}
    /\ DOMAIN archive = {<<"/", "a">>}
    /\ archive[<<"/", "a">>].kind = "link"
    /\ copied_files = <<>>

\* The link /a/m leads to the directory /b/y while its target, as a text, is the
\* file /y: the link and the file are collected, nothing of /b/y is.
TextualTargetCollected ==
    ~(/\ pc = "done"
      /\ copy_paths = {<<"/", "a", "/", "m">>}
      /\ DOMAIN archive = {<<"/", "a", "/", "m">>, <<"/", "y">>})

\* ------------------------------------- claims: forbidden files of a glob

\* How many of the candidates add_copy_spec is to take in full: all of them when
\* no limit is in force, else the longest prefix within the budget.
Taken(cands, limit) == IF limit = 0 THEN Len(cands) ELSE LongestPrefix(cands, limit)

\* The candidate add_copy_spec is to tail, if any: the first one over the budget,
\* when tailing is asked for and the file is not compressed.
ToTail(cands, limit, tailit) ==
    LET k == Taken(cands, limit)
    IN IF k < Len(cands) /\ tailit /\ ~file_is_compressed(cands[k + 1])
       THEN {cands[k + 1]} ELSE {}

\* The last call was add_copy_spec, and went ahead.
CopySpecCall == last_call.op = "add_copy_spec" /\ test_predicate(FALSE, last_call.args.pred)

\* The forbidden files among the files the patterns of the last call matched.
ForbiddenCandidates ==
    {f \in DOMAIN fs : /\ is_forbidden_path(f)
                       /\ \E k \in 1..Len(last_call.args.files) :
                            \E i \in 1..Len(last_call.args.files[k]) :
                                last_call.args.files[k][i] = f}

\* C33: a forbidden file among the files a pattern of add_copy_spec matches is
\* passed over, and nothing else changes for it: it is not added to copy_paths,
\* it is not tailed, and what is added and tailed is what the other files of the
\* pattern, taken alone in the same order, give: the forbidden file uses up none
\* of the budget and the files after it are still looked at.
C33_ForbiddenCandidateSkipped ==
    CopySpecCall =>
        LET files == last_call.args.files
            limit == last_call.args.limit
            tailit == last_call.args.tailit
        IN /\ \A f \in ForbiddenCandidates :
                /\ f \notin copy_paths
                /\ f \notin DOMAIN archive
                /\ \A i \in 1..Len(copy_strings) : copy_strings[i].content.src # f
           /\ copy_paths = UNION {{Candidates(files[k])[i] :
                                        i \in 1..Taken(Candidates(files[k]), limit)} :
                                  k \in 1..Len(files)}
           /\ {p \in DOMAIN fs : IsTailed(p)}
                    = UNION {ToTail(Candidates(files[k]), limit, tailit) : k \in 1..Len(files)}
           /\ DOMAIN archive = {p \in DOMAIN fs : IsTailed(p)}

\* A pattern matched three files of which the second newest is forbidden: the
\* newest is taken in full and the third, a file the budget has no room for, is
\* tailed.
C33_Witness ==
    /\ CopySpecCall
    /\ Len(last_call.args.files) = 1
    /\ Len(last_call.args.files[1]) = 3
    /\ ForbiddenCandidates = {last_call.args.files[1][2]}
    /\ copy_paths = {last_call.args.files[1][1]}
    /\ IsTailed(last_call.args.files[1][3])

\* ---------------------------------- specification: commands run for the plugin

\* A call of get_command_output made by the plugin, directly or through
\* call_ext_prog and check_ext_prog: the arguments are those the caller hands
\* down, the rest have get_command_output's defaults.
ext_call(op, call) ==
    /\ last_call' = [op |-> op, n |-> last_call.n + 1, args |-> call]
    /\ pc' = "get_command_output"
    /\ frame' = [Collecting EXCEPT !.op = op, !.todo = {}, !.back = "setup",
                                   !.call = call]
    /\ dispatched' = <<>>
    /\ ret' = None
    /\ UNCHANGED <<host, preds, forbidden_paths, copy_paths, copy_strings, collect_cmds,
                   ledgers, timeout_hit, archive>>

\* Plugin.get_command_output, called by the plugin
call_get_command_output(prog, timeout, stderr, chroot, binary, sizelimit) ==
    ext_call("get_command_output",
             [NoExec EXCEPT !.prog = prog, !.timeout = timeout, !.stderr = stderr,
                            !.chroot = chroot, !.binary = binary, !.sizelimit = sizelimit])

\* Plugin.call_ext_prog
call_ext_prog(prog, timeout, stderr, chroot) ==
    ext_call("call_ext_prog",
             [NoExec EXCEPT !.prog = prog, !.timeout = timeout, !.stderr = stderr,
                            !.chroot = chroot])

\* Plugin.check_ext_prog
check_ext_prog(prog) == ext_call("check_ext_prog", [NoExec EXCEPT !.prog = prog, !.timeout = 300])

\* The return of get_command_output to the plugin: call_ext_prog hands the
\* result on as it is, None included; check_ext_prog takes result['status'], which
\* raises TypeError on None.
ext_return ==
    /\ pc = "ext_return"
    /\ IF frame.op = "check_ext_prog" /\ frame.result.none
       THEN /\ pc' = "raised"
            /\ frame' = [frame EXCEPT !.exc = "TypeError"]
            /\ UNCHANGED ret
       ELSE /\ pc' = "setup"
            /\ frame' = NoFrame
            /\ ret' = IF frame.op = "check_ext_prog" THEN frame.result.status = 0
                      ELSE frame.result
    /\ UNCHANGED <<host, preds, forbidden_paths, copy_paths, copy_strings, collect_cmds,
                   ledgers, timeout_hit, archive, dispatched, last_call>>

\* The supervisor sets _timeout_hit while the plugin is between two calls.
SetTimeoutBetweenCalls ==
    /\ pc = "setup"
    /\ ~timeout_hit
    /\ timeout_hit' = TRUE
    /\ UNCHANGED <<host, preds, forbidden_paths, copy_paths, copy_strings, collect_cmds,
                   ledgers, archive, dispatched, pc, frame, last_call, ret>>

ExtGetCommandOutput ==
    /\ InSetup
    /\ \E chroot \in BOOLEAN, sizelimit \in {None, 1} :
            call_get_command_output(Ls, 300, FALSE, chroot, FALSE, sizelimit)

ExtCallExtProg == InSetup /\ \E chroot \in BOOLEAN : call_ext_prog(Ls, 10, TRUE, chroot)

ExtCheckExtProg == InSetup /\ check_ext_prog(Ls)

ExtNext ==
    \/ ExtGetCommandOutput
    \/ ExtCallExtProg
    \/ ExtCheckExtProg
    \/ get_command_output
    \/ ext_return
    \/ SetTimeoutBetweenCalls
    \/ SetTimeout

SpecExt == Init /\ [][ExtNext]_vars

\* ------------------------------------- claims: commands run for the plugin

\* A call of the plugin has come back from get_command_output.
ExtReturned == pc = "setup" /\ last_call.op \in ExtOps

\* C34: get_command_output, call_ext_prog and check_ext_prog do not fail on
\* the timeout flag: no such call raises, get_command_output and call_ext_prog
\* hand back a result with a status and an output, check_ext_prog a boolean; and
\* with the flag set as get_command_output is entered no command is run.
C34_CancelledCallStillAnswers ==
    /\ ~(pc = "raised" /\ frame.op \in ExtOps)
    /\ ExtReturned /\ last_call.op # "check_ext_prog" => ~ret.none
    /\ ExtReturned /\ last_call.op = "check_ext_prog" => ret \in BOOLEAN
    /\ pc = "ext_return" /\ frame.result.none => dispatched = <<>> \/ frame.call.nested

\* With the flag set no command is run, and a call that met no flag answers.
CancelledCallRunsNothing ==
    /\ pc = "ext_return" /\ frame.result.none =>
            timeout_hit /\ (dispatched = <<>> \/ frame.call.nested)
    /\ ExtReturned /\ ~timeout_hit =>
            IF last_call.op = "check_ext_prog" THEN ret \in BOOLEAN ELSE ~ret.none

\* check_ext_prog met the flag and raised.
CheckExtProgRaises == ~(pc = "raised" /\ frame.op = "check_ext_prog" /\ dispatched = <<>>)

\* ------------------------------------------- claims: the tail and its link

\* The steps of add_copy_spec that put a link in the archive.
TailLinkAdded ==
    /\ last_call'.op = "add_copy_spec" /\ last_call'.n = last_call.n + 1
    /\ DOMAIN archive' # DOMAIN archive

\* C35: a call of add_copy_spec that puts the link of a tailed file in the
\* archive has queued, in the same call, the '.tailed' string the link points
\* to, whatever the predicate of the call and the predicate of the plugin are.
C35_TailLinkHasItsString ==
    [][TailLinkAdded =>
            \A p \in DOMAIN archive' \ DOMAIN archive :
                /\ Len(copy_strings') = Len(copy_strings) + 1
                /\ copy_strings'[Len(copy_strings')].filename = TailedName(p)]_vars

\* It has when the call went ahead on the plugin's own predicate, or on one that
\* agrees with it.
TailLinkHasItsStringUnderOnePredicate ==
    [][TailLinkAdded /\ test_predicate(FALSE, NoPred) =>
            \A p \in DOMAIN archive' \ DOMAIN archive :
                /\ Len(copy_strings') = Len(copy_strings) + 1
                /\ copy_strings'[Len(copy_strings')].filename = TailedName(p)]_vars

\* A link was written for a tail that was not queued.
TailLinkWithoutString == ~(last_call.op = "add_copy_spec" /\ DOMAIN archive # {} /\ copy_strings = <<>>)

\* ------------------------------------------- claims: in full or as a tail

\* C36: whatever add_copy_spec calls were made, no path is both in copy_paths,
\* to be copied in full, and tailed, with its link in the archive and its
\* '.tailed' string queued.
C36_InFullOrTailedNeverBoth == \A p \in copy_paths : ~IsTailed(p)

\* One pattern alone never gives both.
OnePatternInFullOrTailed ==
    last_call.op = "add_copy_spec" /\ Len(last_call.args.copyspecs) = 1 =>
        \A p \in copy_paths : ~IsTailed(p)

\* ------------------------------------------------ claims: the second run

\* C37: the run get_command_output makes again in the host root has the
\* timeout, the stderr setting, the working directory, the environment, the
\* binary flag and the size limit of the first run: only the root differs.
C37_RetryKeepsTheArguments ==
    \A k \in 2..Len(dispatched) :
        /\ dispatched[k].prog = dispatched[1].prog
        /\ dispatched[k].timeout = dispatched[1].timeout
        /\ dispatched[k].stderr = dispatched[1].stderr
        /\ dispatched[k].chdir = dispatched[1].chdir
        /\ dispatched[k].env = dispatched[1].env
        /\ dispatched[k].binary = dispatched[1].binary
        /\ dispatched[k].sizelimit = dispatched[1].sizelimit
        /\ dispatched[k].chroot # dispatched[1].chroot

\* The second run does keep the command, the timeout, the working directory, the
\* environment and the binary flag, and leaves the root.
RetryKeepsAllButStderrAndSizeLimit ==
    \A k \in 2..Len(dispatched) :
        /\ dispatched[k].prog = dispatched[1].prog
        /\ dispatched[k].timeout = dispatched[1].timeout
        /\ dispatched[k].chdir = dispatched[1].chdir
        /\ dispatched[k].env = dispatched[1].env
        /\ dispatched[k].binary = dispatched[1].binary
        /\ dispatched[k].chroot = NoPath /\ dispatched[1].chroot # NoPath
        /\ dispatched[k].stderr /\ dispatched[k].sizelimit = None

\* ------------------------------------------- claims: length of file names

\* The last component of a path.
Basename(path) == Drop(path, LastIndexOf(path, "/"))

\* C38: the last component of the file name every collected command output is
\* given, a suffix _2, _3, ... included, is no longer than the archive's name_max.
C38_NameWithinNameMax ==
    \A i \in 1..Len(executed_commands) :
        Len(Basename(executed_commands[i].file)) <= commons.name_max

\* The name is within name_max before the suffix is put to it.
NameWithinNameMaxButForTheSuffix ==
    \A i \in 1..Len(executed_commands) :
        LET name == Basename(executed_commands[i].file)
        IN \/ Len(name) <= commons.name_max
           \/ \E m \in 2..(i + 1) :
                /\ EndsWith(name, <<"_">> \o Decimal(m))
                /\ Len(name) = commons.name_max + Len(<<"_">> \o Decimal(m))

\* ------------------------------------ specification: suggested file names

\* The file name and the root link a plugin suggests for the output of ls.
Suggested == [DefaultOpts EXCEPT !.suggest_filename = <<"n">>, !.root_symlink = <<"r">>]

\* add_cmd_output with a suggested file name and a root link
SuggestQueued ==
    /\ InSetup
    /\ \E chroot \in BOOLEAN, binary \in BOOLEAN :
            add_cmd_output(<<Ls>>, [Suggested EXCEPT !.chroot = chroot, !.binary = binary],
                           NoPred)

\* get_cmd_output_now with a suggested file name and a root link
SuggestNow ==
    /\ InSetup
    /\ \E chroot \in BOOLEAN, binary \in BOOLEAN :
            call_get_cmd_output_now(Ls, [Suggested EXCEPT !.chroot = chroot,
                                                          !.binary = binary], NoPred)

SuggestNext ==
    \/ SuggestQueued
    \/ SuggestNow
    \/ collect
    \/ collect_copy_specs
    \/ collect_cmd_output
    \/ get_command_output
    \/ get_cmd_output_now
    \/ collect_strings

SpecSuggest == Init /\ [][SuggestNext]_vars

\* --------------------------------------------- claims: suggested file names

\* The output of the i-th command collected is named after the suggestion.
NamedAsSuggested(i) ==
    StartsWith(executed_commands[i].file, PathJoin(PluginName, Suggested.suggest_filename))

\* The root link leads to the output of a command.
RootLinkMade ==
    /\ Suggested.root_symlink \in DOMAIN archive
    /\ archive[Suggested.root_symlink].kind = "link"
    /\ \E i \in 1..Len(executed_commands) :
            archive[Suggested.root_symlink].target = CmdFile(i)

\* C39: a command collected with a suggested file name and a root link has its
\* output named after the suggestion, not after the command, and the root link
\* is made, whether it was queued by add_cmd_output and collected by collect()
\* or collected at once by get_cmd_output_now.
C39_SuggestedNameUsed ==
    executed_commands # <<>> =>
        /\ \A i \in 1..Len(executed_commands) : NamedAsSuggested(i)
        /\ RootLinkMade

\* It is so for the commands add_cmd_output queued and collect() collected.
SuggestedNameUsedForQueued ==
    [][pc = "get_cmd_output_now" /\ frame.op = "collect" /\ pc' # "raised" =>
            /\ Len(executed_commands') = Len(executed_commands) + 1
            /\ StartsWith(executed_commands'[Len(executed_commands')].file,
                          PathJoin(PluginName, Suggested.suggest_filename))
            /\ Suggested.root_symlink \in DOMAIN archive'
            /\ archive'[Suggested.root_symlink].target
                    = PathJoin(commons.cmddir, executed_commands'[Len(executed_commands')].file)]_vars

\* ------------------------------------------- claims: a budget per pattern

\* The last call was add_copy_spec with several patterns under a byte budget.
SeveralPatterns ==
    /\ CopySpecCall
    /\ Len(last_call.args.files) > 1
    /\ last_call.args.limit > 0

\* C40: in a call of add_copy_spec with several patterns each pattern has the
\* whole budget: the files taken for a pattern are the longest prefix of its own
\* candidates that fits the limit, whatever the patterns before it took.
C40_BudgetPerPattern ==
    SeveralPatterns =>
        \A k \in 1..Len(last_call.args.files) :
            LET cands == Candidates(last_call.args.files[k])
                n == LongestPrefix(cands, last_call.args.limit)
            IN \A i \in 1..n : cands[i] \in copy_paths

\* Two patterns under the default budget of 10 MB: the first took a file of
\* 10 MB, the second one took another, 20 MB in all.
C40_Witness ==
    /\ SeveralPatterns
    /\ last_call.args.limit = 10 * MB
    /\ Cardinality(copy_paths) = 2
    /\ \A p \in copy_paths : StatSize(p) = 10 * MB

====
